---- MODULE Spec2Model ----
(***************************************************************************)
(* A model of the sBTC signer: request validation, the vote-aware         *)
(* packager, the libp2p event loop, the termination handle and the        *)
(* in-memory signer network.  Each subsystem has its own variables, its   *)
(* own initial condition and its own next-state relation; a subsystem's   *)
(* specification leaves the variables of the others at their idle values. *)
(***************************************************************************)
EXTENDS Integers, Sequences, FiniteSets, TLC

VARIABLES
    \* DepositRequestReport::validate (signer/src/bitcoin/validation.rs)
    report,              \* the DepositRequestReport under validation
    validate_args,       \* [chain_tip_height, tx, tx_fee] passed to validate
    validation_result,   \* the InputValidationResult returned, "pending" before
    \* BitcoinTxValidationData (signer/src/bitcoin/validation.rs)
    vd,                  \* the BitcoinTxValidationData, built == FALSE before
    valid_tx,            \* [done, value]: what is_valid_tx returned
    input_rows,          \* [done, rows]: what to_input_rows returned
    withdrawal_rows,     \* [done, rows]: what to_withdrawal_rows returned
    construct_result,    \* what construct_tx_sighashes returned, "pending" before
    \* BitcoinTxContext::pre_validation (signer/src/bitcoin/validation.rs)
    request_packages,    \* BitcoinTxContext.request_packages
    pre_validation_result,
    \* compute_optimal_packages2 (signer/src/bitcoin/packaging.rs)
    pk_items,            \* the items handed to compute_optimal_packages2
    pk_limits,           \* [max_votes_against, max_mass] handed to it
    item_vec,            \* the sorted items not yet inserted
    packager,            \* the OptimalPackager: [bags, total_vsize]
    pk_pc,               \* "start", "insert", "done" or "panicked"
    pk_result,           \* the bags returned
    \* the libp2p event loop (signer/src/network/libp2p/event_loop.rs)
    signal_rx,           \* what signal_rx of run has yet to receive: [queue, lagged]
    outbox,              \* the outbox of run
    connections,         \* the peers the swarm holds a connection to
    swarm_next,          \* the event swarm.next() has ready, or NoEvent
    event,               \* the event poll_swarm handled last
    published,           \* the number of P2PPublish commands sent on the bus
    outcomes,            \* per message id, the publish outcomes sent on the bus
    delivered,           \* the gossip event whose message was sent on the bus last
    \* the termination handle (signer/src/context.rs)
    term_tx,             \* the watch channel: [value, version]
    tasks,               \* per task, its position and what its receiver has seen
    signal_receivers,    \* the number of receivers subscribed to signal_tx
    signal_log,          \* the results of Context::signal so far, in order
    \* the in-memory network (signer/src/network/in_memory2.rs)
    wan,                 \* the messages sent on the WAN channel, oldest first
    sent,                \* per signer, InnerSignerNetwork.sent
    forwarder,           \* per signer, the forwarding task: [alive, pos]
    signer_tx,           \* per signer, the messages sent on signer_tx
    instance_rx,         \* per instance, [pos, msg]: its receiver and what
                         \* receive returned last
    \* the coordinator's lookup of the signing set (signer/src/storage/mod.rs)
    dkg_shares,          \* the dkg_shares table, oldest row first
    rotate_keys,         \* the rotate-keys transactions, lowest block first
    key_lookup,          \* what get_signer_set_and_aggregate_key returned since
                         \* the last write
    \* a DKG round (section 4.4; signer/src/wsts_state_machine.rs)
    dkg_coord,           \* the coordinator: [state, gathered, aggregate_key]
    dkg_party,           \* per signer, the state of its DKG state machine
    dkg_net,             \* the DKG messages broadcast so far
    dkg_store,           \* per signer, the aggregate keys of its dkg_shares rows
    \* loading WSTS state machines (signer/src/wsts_state_machine.rs)
    shares_rows,         \* the dkg_shares table, by aggregate key
    loaded,              \* the last load: [kind, aggregate_key, result]
    \* the signer UTXO resolver (section 4.3; DbRead::get_signer_utxo)
    bitcoin_txs,         \* the bitcoin transactions in the store, in order of txid
    utxo_lookup,         \* the last lookup: [done, chain_tip, aggregate_key, result]
    \* bitcoin transaction sign requests (signer/src/testing/transaction_signer.rs)
    sign_store,          \* the outpoints of the requests the signer's store knows
    sign_requests,       \* the sign requests broadcast by the coordinator
    sign_replies,        \* per handled request: [tx, valid, ack]
    \* peer discovery of the libp2p event loop (handle_mdns_event, handle_identify_event)
    enable_mdns,         \* config().signer.p2p.enable_mdns
    explicit_peers,      \* the explicit peers of gossipsub
    external_addresses,  \* the peers whose observed address was added
    discovery_log,       \* the discovery events handled so far
    \* validation data of a package (BitcoinTxContext::construct_package_sighashes)
    tx_context,          \* the BitcoinTxContext: request_packages and signer_state
    package_result,      \* what construct_package_sighashes returned
    \* the request decider (RequestDeciderEventLoop::handle_pending_deposit_request)
    decider_in_signing_set, \* whether the signer's key is in the signing set of the DKG shares
    deposit_requests,    \* the deposit requests of the store
    deposit_signers,     \* the rows of signer decisions of the store, in the order written
    decider,             \* the handler's position and the request and decision in hand
    decisions_sent,      \* the decisions broadcast to the network, in order
    \* the weight packager (compute_optimal_packages)
    weighted_items,      \* the weights of the items given, in the order given
    bag_capacity,        \* the capacity of a bag
    packages_result,     \* the bags returned, once computed
    \* the ZeroMQ streams (BitcoinCoreMessageStream)
    zmq_socket,          \* the messages received by the socket and not yet taken by the stream
    message_stream,      \* the items the message stream has yielded
    block_stream,        \* the items the block stream has yielded
    \* conversions between [u8; 32] and proto::Uint256
    conv_input,          \* the value the conversions start from
    conv_trail,          \* the results of the conversions applied so far, in order
    \* the signer bitmap of a withdrawal, to the contract and back
    withdrawal_call,     \* the AcceptWithdrawalV1 or RejectWithdrawalV1 to submit
    contract_args,       \* the arguments of the contract call, once built
    print_event,         \* the tuple printed by the sbtc-registry contract
    registry_event       \* the RegistryEvent made from the printed tuple

valVars  == <<report, validate_args, validation_result>>
txVars   == <<vd, valid_tx, input_rows, withdrawal_rows, construct_result>>
uniqVars == <<request_packages, pre_validation_result>>
packVars == <<pk_items, pk_limits, item_vec, packager, pk_pc, pk_result>>
p2pVars  == <<signal_rx, outbox, connections, swarm_next, event, published,
              outcomes, delivered>>
termVars == <<term_tx, tasks, signal_receivers, signal_log>>
netVars  == <<wan, sent, forwarder, signer_tx, instance_rx>>
keysVars == <<dkg_shares, rotate_keys, key_lookup>>
dkgVars  == <<dkg_coord, dkg_party, dkg_net, dkg_store>>
loadVars == <<shares_rows, loaded>>
utxoVars == <<bitcoin_txs, utxo_lookup>>
signVars == <<sign_store, sign_requests, sign_replies>>
discVars == <<enable_mdns, explicit_peers, external_addresses, discovery_log>>
pkgVars  == <<tx_context, package_result>>
decVars  == <<decider_in_signing_set, deposit_requests, deposit_signers, decider,
             decisions_sent>>
bfdVars  == <<weighted_items, bag_capacity, packages_result>>
zmqVars  == <<zmq_socket, message_stream, block_stream>>
convVars == <<conv_input, conv_trail>>
bitmapVars == <<withdrawal_call, contract_args, print_event, registry_event>>
vars == <<valVars, txVars, uniqVars, packVars, p2pVars, termVars, netVars,
          keysVars, dkgVars, loadVars, utxoVars, signVars, discVars, pkgVars,
          decVars, bfdVars, zmqVars, convVars, bitmapVars>>

\* What the operations of each part leave alone.
exceptVal == <<txVars, uniqVars, packVars, p2pVars, termVars, netVars,
               keysVars, dkgVars, loadVars, utxoVars, signVars, discVars,
               pkgVars, decVars, bfdVars, zmqVars, convVars, bitmapVars>>
exceptTx == <<valVars, uniqVars, packVars, p2pVars, termVars, netVars,
              keysVars, dkgVars, loadVars, utxoVars, signVars, discVars,
              pkgVars, decVars, bfdVars, zmqVars, convVars, bitmapVars>>
exceptUniq == <<valVars, txVars, packVars, p2pVars, termVars, netVars,
                keysVars, dkgVars, loadVars, utxoVars, signVars, discVars,
                pkgVars, decVars, bfdVars, zmqVars, convVars, bitmapVars>>
exceptPack == <<valVars, txVars, uniqVars, p2pVars, termVars, netVars,
                keysVars, dkgVars, loadVars, utxoVars, signVars, discVars,
                pkgVars, decVars, bfdVars, zmqVars, convVars, bitmapVars>>
exceptP2P == <<valVars, txVars, uniqVars, packVars, termVars, netVars,
               keysVars, dkgVars, loadVars, utxoVars, signVars, discVars,
               pkgVars, decVars, bfdVars, zmqVars, convVars, bitmapVars>>
exceptTerm == <<valVars, txVars, uniqVars, packVars, p2pVars, netVars,
                keysVars, dkgVars, loadVars, utxoVars, signVars, discVars,
                pkgVars, decVars, bfdVars, zmqVars, convVars, bitmapVars>>
exceptNet == <<valVars, txVars, uniqVars, packVars, p2pVars, termVars,
               keysVars, dkgVars, loadVars, utxoVars, signVars, discVars,
               pkgVars, decVars, bfdVars, zmqVars, convVars, bitmapVars>>
exceptKeys == <<valVars, txVars, uniqVars, packVars, p2pVars, termVars,
                netVars, dkgVars, loadVars, utxoVars, signVars, discVars,
                pkgVars, decVars, bfdVars, zmqVars, convVars, bitmapVars>>
exceptDkg == <<valVars, txVars, uniqVars, packVars, p2pVars, termVars,
               netVars, keysVars, loadVars, utxoVars, signVars, discVars,
               pkgVars, decVars, bfdVars, zmqVars, convVars, bitmapVars>>
exceptLoad == <<valVars, txVars, uniqVars, packVars, p2pVars, termVars,
                netVars, keysVars, dkgVars, utxoVars, signVars, discVars,
                pkgVars, decVars, bfdVars, zmqVars, convVars, bitmapVars>>
exceptUtxo == <<valVars, txVars, uniqVars, packVars, p2pVars, termVars,
                netVars, keysVars, dkgVars, loadVars, signVars, discVars,
                pkgVars, decVars, bfdVars, zmqVars, convVars, bitmapVars>>
exceptSign == <<valVars, txVars, uniqVars, packVars, p2pVars, termVars,
                netVars, keysVars, dkgVars, loadVars, utxoVars, discVars,
                pkgVars, decVars, bfdVars, zmqVars, convVars, bitmapVars>>
exceptDisc == <<valVars, txVars, uniqVars, packVars, p2pVars, termVars,
                netVars, keysVars, dkgVars, loadVars, utxoVars, signVars,
                pkgVars, decVars, bfdVars, zmqVars, convVars, bitmapVars>>
exceptPkg == <<valVars, txVars, uniqVars, packVars, p2pVars, termVars,
               netVars, keysVars, dkgVars, loadVars, utxoVars, signVars,
               discVars, decVars, bfdVars, zmqVars, convVars, bitmapVars>>
exceptDec == <<valVars, txVars, uniqVars, packVars, p2pVars, termVars,
               netVars, keysVars, dkgVars, loadVars, utxoVars, signVars,
               discVars, pkgVars, bfdVars, zmqVars, convVars, bitmapVars>>
exceptBfd == <<valVars, txVars, uniqVars, packVars, p2pVars, termVars,
               netVars, keysVars, dkgVars, loadVars, utxoVars, signVars,
               discVars, pkgVars, decVars, zmqVars, convVars, bitmapVars>>
exceptZmq == <<valVars, txVars, uniqVars, packVars, p2pVars, termVars,
               netVars, keysVars, dkgVars, loadVars, utxoVars, signVars,
               discVars, pkgVars, decVars, bfdVars, convVars, bitmapVars>>
exceptConv == <<valVars, txVars, uniqVars, packVars, p2pVars, termVars,
                netVars, keysVars, dkgVars, loadVars, utxoVars, signVars,
                discVars, pkgVars, decVars, bfdVars, zmqVars, bitmapVars>>
exceptBitmap == <<valVars, txVars, uniqVars, packVars, p2pVars, termVars,
                  netVars, keysVars, dkgVars, loadVars, utxoVars, signVars,
                  discVars, pkgVars, decVars, bfdVars, zmqVars, convVars>>

(***************************************************************************)
(* Helpers for Rust integer and iterator operations.                       *)
(***************************************************************************)
\* u64::saturating_sub / u16::saturating_sub
SaturatingSub(a, b) == IF a > b THEN a - b ELSE 0

\* u64::min
Min(a, b) == IF a <= b THEN a ELSE b

\* u64::div_ceil
DivCeil(a, b) == (a + b - 1) \div b

Range(s) == {s[i] : i \in DOMAIN s}

SeqsUpTo(S, n) == UNION {[1..k -> S] : k \in 0..n}

(***************************************************************************)
(* Deposit validation.                                                     *)
(***************************************************************************)
\* crate::DEPOSIT_LOCKTIME_BLOCK_BUFFER (u16), imported by validation.rs.
DEPOSIT_LOCKTIME_BLOCK_BUFFER == 3

\* InputValidationResult
InputValidationResult ==
    {"Ok", "FeeTooHigh", "CannotSignUtxo", "TxNotOnBestChain", "DepositUtxoSpent",
     "LockTimeExpiry", "NoVote", "RejectedRequest", "Unknown", "UnsupportedLockTime"}

\* WithdrawalValidationResult
WithdrawalValidationResult == {"Unknown", "Unsupported"}

\* Option<bool>
OptionBool == {"None", "SomeTrue", "SomeFalse"}

\* FeeAssessment::assess_input_fee for a bitcoin transaction: the share of
\* tx_fee of the request input spending `outpoint`, in proportion to its
\* weight among the request inputs (the first input is the signers' own and
\* carries no share); None when no request input spends `outpoint`.
assess_input_fee(t, outpoint, fee) ==
    LET reqs  == {i \in DOMAIN t.input : i > 1}
        found == {i \in reqs : t.input[i].previous_output = outpoint}
        SumW[S \in SUBSET reqs] ==
            IF S = {} THEN 0
            ELSE LET i == CHOOSE j \in S : TRUE
                 IN  t.input[i].weight + SumW[S \ {i}]
    IN  IF found = {} THEN [some |-> FALSE, sat |-> 0]
        ELSE LET i == CHOOSE j \in found : \A k \in found : j <= k
             IN  [some |-> TRUE,
                  sat  |-> DivCeil(t.input[i].weight * fee, SumW[reqs])]

\* A mutant of validate: the age is checked for a lock-time of either unit.
validate_age_of_any_unit(r, chain_tip_height, t, fee) ==
    IF r.status.kind = "Unconfirmed" THEN "TxNotOnBestChain"
    ELSE IF r.status.kind = "Spent" THEN "DepositUtxoSpent"
    ELSE
    LET confirmed_block_height == r.status.height
        deposit_age == SaturatingSub(chain_tip_height, confirmed_block_height)
        max_age == SaturatingSub(r.lock_time.value, DEPOSIT_LOCKTIME_BLOCK_BUFFER)
        assessed_fee == assess_input_fee(t, r.outpoint, fee)
    IN  IF deposit_age >= max_age THEN "LockTimeExpiry"
        ELSE IF r.lock_time.kind = "Time" THEN "UnsupportedLockTime"
        ELSE IF ~assessed_fee.some THEN "Unknown"
        ELSE IF assessed_fee.sat > Min(r.max_fee, r.amount) THEN "FeeTooHigh"
        ELSE IF r.can_accept = "None" THEN "NoVote"
        ELSE IF r.can_accept = "SomeFalse" THEN "RejectedRequest"
        ELSE IF r.can_sign = "SomeFalse" THEN "CannotSignUtxo"
        ELSE IF r.can_sign = "None" THEN "NoVote"
        ELSE "Ok"

\* A mutant of validate: a deposit expires only once it is older than max_age.
validate_expiry_gt(r, chain_tip_height, t, fee) ==
    IF r.status.kind = "Unconfirmed" THEN "TxNotOnBestChain"
    ELSE IF r.status.kind = "Spent" THEN "DepositUtxoSpent"
    ELSE
    LET confirmed_block_height == r.status.height
        deposit_age == SaturatingSub(chain_tip_height, confirmed_block_height)
        max_age == SaturatingSub(r.lock_time.value, DEPOSIT_LOCKTIME_BLOCK_BUFFER)
        assessed_fee == assess_input_fee(t, r.outpoint, fee)
    IN  IF r.lock_time.kind = "Blocks" /\ deposit_age > max_age THEN "LockTimeExpiry"
        ELSE IF r.lock_time.kind = "Time" THEN "UnsupportedLockTime"
        ELSE IF ~assessed_fee.some THEN "Unknown"
        ELSE IF assessed_fee.sat > Min(r.max_fee, r.amount) THEN "FeeTooHigh"
        ELSE IF r.can_accept = "None" THEN "NoVote"
        ELSE IF r.can_accept = "SomeFalse" THEN "RejectedRequest"
        ELSE IF r.can_sign = "SomeFalse" THEN "CannotSignUtxo"
        ELSE IF r.can_sign = "None" THEN "NoVote"
        ELSE "Ok"

\* A mutant of validate: an assessed fee equal to the limit is too high.
validate_fee_ge(r, chain_tip_height, t, fee) ==
    IF r.status.kind = "Unconfirmed" THEN "TxNotOnBestChain"
    ELSE IF r.status.kind = "Spent" THEN "DepositUtxoSpent"
    ELSE
    LET confirmed_block_height == r.status.height
        deposit_age == SaturatingSub(chain_tip_height, confirmed_block_height)
        max_age == SaturatingSub(r.lock_time.value, DEPOSIT_LOCKTIME_BLOCK_BUFFER)
        assessed_fee == assess_input_fee(t, r.outpoint, fee)
    IN  IF r.lock_time.kind = "Blocks" /\ deposit_age >= max_age THEN "LockTimeExpiry"
        ELSE IF r.lock_time.kind = "Time" THEN "UnsupportedLockTime"
        ELSE IF ~assessed_fee.some THEN "Unknown"
        ELSE IF assessed_fee.sat >= Min(r.max_fee, r.amount) THEN "FeeTooHigh"
        ELSE IF r.can_accept = "None" THEN "NoVote"
        ELSE IF r.can_accept = "SomeFalse" THEN "RejectedRequest"
        ELSE IF r.can_sign = "SomeFalse" THEN "CannotSignUtxo"
        ELSE IF r.can_sign = "None" THEN "NoVote"
        ELSE "Ok"

\* A mutant of validate: the votes are checked before the assessed fee.
validate_votes_first(r, chain_tip_height, t, fee) ==
    IF r.status.kind = "Unconfirmed" THEN "TxNotOnBestChain"
    ELSE IF r.status.kind = "Spent" THEN "DepositUtxoSpent"
    ELSE IF r.lock_time.kind = "Time" THEN "UnsupportedLockTime"
    ELSE IF SaturatingSub(chain_tip_height, r.status.height)
              >= SaturatingSub(r.lock_time.value, DEPOSIT_LOCKTIME_BLOCK_BUFFER)
         THEN "LockTimeExpiry"
    ELSE IF r.can_accept = "None" THEN "NoVote"
    ELSE IF r.can_accept = "SomeFalse" THEN "RejectedRequest"
    ELSE IF r.can_sign = "SomeFalse" THEN "CannotSignUtxo"
    ELSE IF r.can_sign = "None" THEN "NoVote"
    ELSE IF ~assess_input_fee(t, r.outpoint, fee).some THEN "Unknown"
    ELSE IF assess_input_fee(t, r.outpoint, fee).sat > Min(r.max_fee, r.amount)
         THEN "FeeTooHigh"
    ELSE "Ok"

\* DepositRequestReport::validate
validate(r, chain_tip_height, t, fee) ==
    IF r.status.kind = "Unconfirmed" THEN "TxNotOnBestChain"
    ELSE IF r.status.kind = "Spent" THEN "DepositUtxoSpent"
    ELSE \* status is Confirmed(block_height, _)
    LET confirmed_block_height == r.status.height
        deposit_age == SaturatingSub(chain_tip_height, confirmed_block_height)
        max_age == SaturatingSub(r.lock_time.value, DEPOSIT_LOCKTIME_BLOCK_BUFFER)
        assessed_fee == assess_input_fee(t, r.outpoint, fee)
    IN  IF r.lock_time.kind = "Blocks" /\ deposit_age >= max_age THEN "LockTimeExpiry"
        ELSE IF r.lock_time.kind = "Time" THEN "UnsupportedLockTime"
        ELSE IF ~assessed_fee.some THEN "Unknown"
        ELSE IF assessed_fee.sat > Min(r.max_fee, r.amount) THEN "FeeTooHigh"
        ELSE IF r.can_accept = "None" THEN "NoVote"
        ELSE IF r.can_accept = "SomeFalse" THEN "RejectedRequest"
        ELSE IF r.can_sign = "SomeFalse" THEN "CannotSignUtxo"
        ELSE IF r.can_sign = "None" THEN "NoVote"
        ELSE "Ok"

\* WithdrawalRequestReport::validate
validate_withdrawal(r, chain_tip_height, t, fee) == "Unsupported"


(***************************************************************************)
(* Input domains of the deposit validation specification.                  *)
(***************************************************************************)
\* DepositConfirmationStatus; the height only matters for Confirmed.
Unconfirmed == [kind |-> "Unconfirmed", height |-> 0]
Spent       == [kind |-> "Spent", height |-> 0]
Confirmed(h) == [kind |-> "Confirmed", height |-> h]

\* bitcoin::relative::LockTime
Blocks(n)   == [kind |-> "Blocks", value |-> n]
TimeLock(n) == [kind |-> "Time", value |-> n]

OutPoint(txid, vout) == [txid |-> txid, vout |-> vout]

\* The outpoint of the signers' UTXO, the first input of every sweep.
SignerOutPoint == [txid |-> 9, vout |-> 0]

TxIn(outpoint) == [previous_output |-> outpoint, weight |-> 1]

\* The transactions handed to validate: the signers' input followed by one
\* or by two deposit inputs.
SampleTxs ==
    { [input |-> <<TxIn(SignerOutPoint), TxIn(OutPoint(0, 0))>>],
      [input |-> <<TxIn(SignerOutPoint), TxIn(OutPoint(0, 0)), TxIn(OutPoint(1, 0))>>] }

SampleStatuses == {Unconfirmed, Spent, Confirmed(0), Confirmed(1)}

SampleLockTimes ==
    { Blocks(1),
      Blocks(DEPOSIT_LOCKTIME_BLOCK_BUFFER + 2),
      Blocks(DEPOSIT_LOCKTIME_BLOCK_BUFFER + 3),
      TimeLock(1),
      TimeLock(DEPOSIT_LOCKTIME_BLOCK_BUFFER + 3) }

SampleFees == {9999, 10000}

SampleAmounts == {9999, 100000000}

DepositReports ==
    [ outpoint   : {OutPoint(0, 0), OutPoint(1, 0)},
      status     : SampleStatuses,
      can_sign   : OptionBool,
      can_accept : OptionBool,
      amount     : SampleAmounts,
      max_fee    : SampleFees,
      lock_time  : SampleLockTimes ]

ValidateArgs ==
    [ chain_tip_height : {2}, tx : SampleTxs, tx_fee : {10000} ]

IdleReport ==
    [ outpoint |-> OutPoint(0, 0), status |-> Unconfirmed, can_sign |-> "None",
      can_accept |-> "None", amount |-> 0, max_fee |-> 0, lock_time |-> Blocks(0) ]

IdleArgs == [chain_tip_height |-> 0, tx |-> [input |-> <<>>], tx_fee |-> 0]

ValIdle ==
    /\ report = IdleReport
    /\ validate_args = IdleArgs
    /\ validation_result = "pending"

(***************************************************************************)
(* BitcoinTxValidationData and the rows derived from it.                   *)
(***************************************************************************)
\* Ord for OutPoint: by txid, then by vout.
OutPointLess(a, b) ==
    a.txid < b.txid \/ (a.txid = b.txid /\ a.vout < b.vout)

\* Ord for QualifiedRequestId: by request_id, then txid, then block_hash.
RequestIdLess(a, b) ==
    \/ a.request_id < b.request_id
    \/ a.request_id = b.request_id /\ a.txid < b.txid
    \/ a.request_id = b.request_id /\ a.txid = b.txid /\ a.block_hash < b.block_hash

\* deposits.sort_by_key(|(request, _)| request.outpoint): a stable sort.
RECURSIVE InsertDeposit(_, _)
InsertDeposit(x, s) ==
    IF s = <<>> THEN <<x>>
    ELSE IF OutPointLess(x.outpoint, s[1].outpoint) THEN <<x>> \o s
    ELSE <<s[1]>> \o InsertDeposit(x, Tail(s))

RECURSIVE SortDeposits(_)
SortDeposits(s) ==
    IF s = <<>> THEN <<>>
    ELSE InsertDeposit(s[Len(s)], SortDeposits(SubSeq(s, 1, Len(s) - 1)))

\* withdrawals.sort_by_key(|(_, report)| report.id): a stable sort.
RECURSIVE InsertWithdrawal(_, _)
InsertWithdrawal(x, s) ==
    IF s = <<>> THEN <<x>>
    ELSE IF RequestIdLess(x.id, s[1].id) THEN <<x>> \o s
    ELSE <<s[1]>> \o InsertWithdrawal(x, Tail(s))

RECURSIVE SortWithdrawals(_)
SortWithdrawals(s) ==
    IF s = <<>> THEN <<>>
    ELSE InsertWithdrawal(s[Len(s)], SortWithdrawals(SubSeq(s, 1, Len(s) - 1)))

\* The outputs of a sweep transaction: the signers' new UTXO, the OP_RETURN
\* output, then one output per withdrawal, in the order of the withdrawals.
sweep_tx_outputs(withdrawals) ==
    <<[kind |-> "signers"], [kind |-> "op_return"]>>
    \o [i \in 1..Len(withdrawals) |->
           [kind |-> "withdrawal", id |-> withdrawals[i].id,
            amount |-> withdrawals[i].amount]]

\* SbtcReports::create_transaction: the signers' input first, then one
\* input per deposit, in the order of the (sorted) deposits.
create_transaction(deposits, withdrawals, signer_utxo) ==
    [input |-> <<TxIn(signer_utxo)>>
               \o [i \in 1..Len(deposits) |-> TxIn(deposits[i].outpoint)],
     output |-> sweep_tx_outputs(withdrawals)]

\* UnsignedTransaction::construct_digests: one sighash for the signers'
\* input and one per deposit input, each naming the prevout it signs for.
SignatureHash(outpoint, prevout_type) ==
    [outpoint |-> outpoint, prevout_type |-> prevout_type]

\* A mutant of is_valid_tx: a deposit that cannot be signed invalidates the
\* whole transaction.
is_valid_tx_only_ok(d) ==
    /\ \A i \in DOMAIN d.reports.deposits :
          validate(d.reports.deposits[i], d.chain_tip_height, d.tx, d.tx_fee) = "Ok"
    /\ \A i \in DOMAIN d.reports.withdrawals :
          validate_withdrawal(d.reports.withdrawals[i], d.chain_tip_height, d.tx, d.tx_fee)
             \notin {"Unsupported", "Unknown"}

\* A mutant of is_valid_tx: the withdrawals are not looked at.
is_valid_tx_deposits_only(d) ==
    \A i \in DOMAIN d.reports.deposits :
        validate(d.reports.deposits[i], d.chain_tip_height, d.tx, d.tx_fee)
            \in {"Ok", "CannotSignUtxo"}

\* BitcoinTxValidationData::is_valid_tx
is_valid_tx(d) ==
    LET deposit_validation_results ==
            \A i \in DOMAIN d.reports.deposits :
                validate(d.reports.deposits[i], d.chain_tip_height, d.tx, d.tx_fee)
                    \in {"Ok", "CannotSignUtxo"}
        withdrawal_validation_results ==
            \A i \in DOMAIN d.reports.withdrawals :
                IF validate_withdrawal(d.reports.withdrawals[i],
                                       d.chain_tip_height, d.tx, d.tx_fee)
                      \in {"Unsupported", "Unknown"}
                THEN FALSE
                ELSE TRUE
    IN  deposit_validation_results /\ withdrawal_validation_results

\* A mutant of to_input_rows: every input of a valid transaction is signed.
to_input_rows_sign_all(d) ==
    LET n == Min(Len(d.deposit_sighashes), Len(d.reports.deposits))
        pairs == <<[sighash |-> d.signer_sighash, validation_result |-> "Ok"]>>
                 \o [i \in 1..n |->
                        [sighash |-> d.deposit_sighashes[i],
                         validation_result |->
                            validate(d.reports.deposits[i], d.chain_tip_height,
                                     d.tx, d.tx_fee)]]
    IN  [i \in 1..Len(pairs) |->
            [prevout_txid         |-> pairs[i].sighash.outpoint.txid,
             prevout_output_index |-> pairs[i].sighash.outpoint.vout,
             prevout_type         |-> pairs[i].sighash.prevout_type,
             validation_result    |-> pairs[i].validation_result,
             is_valid_tx          |-> is_valid_tx(d),
             will_sign            |-> is_valid_tx(d)]]

\* BitcoinTxValidationData::to_input_rows
to_input_rows(d) ==
    LET valid == is_valid_tx(d)
        \* Iterator::zip stops at the shorter of the two.
        n == Min(Len(d.deposit_sighashes), Len(d.reports.deposits))
        pairs == <<[sighash |-> d.signer_sighash, validation_result |-> "Ok"]>>
                 \o [i \in 1..n |->
                        [sighash |-> d.deposit_sighashes[i],
                         validation_result |->
                            validate(d.reports.deposits[i], d.chain_tip_height,
                                     d.tx, d.tx_fee)]]
    IN  [i \in 1..Len(pairs) |->
            [prevout_txid         |-> pairs[i].sighash.outpoint.txid,
             prevout_output_index |-> pairs[i].sighash.outpoint.vout,
             prevout_type         |-> pairs[i].sighash.prevout_type,
             validation_result    |-> pairs[i].validation_result,
             is_valid_tx          |-> valid,
             will_sign            |-> valid /\ pairs[i].validation_result = "Ok"]]

\* BitcoinTxValidationData::to_withdrawal_rows
to_withdrawal_rows(d) ==
    LET valid == is_valid_tx(d)
    IN  [i \in 1..Len(d.reports.withdrawals) |->
            [output_index      |-> i - 1,
             request_id        |-> d.reports.withdrawals[i].id.request_id,
             stacks_txid       |-> d.reports.withdrawals[i].id.txid,
             stacks_block_hash |-> d.reports.withdrawals[i].id.block_hash,
             validation_result |->
                validate_withdrawal(d.reports.withdrawals[i], d.chain_tip_height,
                                    d.tx, d.tx_fee),
             is_valid_tx       |-> valid]]

(***************************************************************************)
(* Uniqueness precheck.                                                    *)
(***************************************************************************)
\* reqs.iter().all(|x| set.insert(x)): stops at the first element already in
\* the set; returns whether all were new, and the set as it is left.
RECURSIVE all_insert(_, _)
all_insert(s, set) ==
    IF s = <<>> THEN [ok |-> TRUE, set |-> set]
    ELSE IF s[1] \in set THEN [ok |-> FALSE, set |-> set]
    ELSE all_insert(Tail(s), set \cup {s[1]})

RECURSIVE is_unique_from(_, _, _)
is_unique_from(packages, deposits_set, withdrawals_set) ==
    IF packages = <<>> THEN TRUE
    ELSE LET deposits    == all_insert(packages[1].deposits, deposits_set)
             withdrawals == all_insert(packages[1].withdrawals, withdrawals_set)
         IN  IF deposits.ok /\ withdrawals.ok
             THEN is_unique_from(Tail(packages), deposits.set, withdrawals.set)
             ELSE FALSE

\* A mutant of is_unique: the two sets are created anew for each transaction.
is_unique_per_tx(packages) ==
    \A t \in DOMAIN packages :
        /\ all_insert(packages[t].deposits, {}).ok
        /\ all_insert(packages[t].withdrawals, {}).ok

\* is_unique
is_unique(packages) == is_unique_from(packages, {}, {})

\* BitcoinTxContext::pre_validation
pre_validation(packages) ==
    IF ~is_unique(packages) THEN "DuplicateRequests" ELSE "Ok"

(***************************************************************************)
(* Bounds and input domains of the transaction-level specifications.       *)
(***************************************************************************)
MaxDeposits == 2
MaxWithdrawals == 1
MaxTxs == 2
MaxRequests == 2

\* QualifiedRequestId
RequestId(request_id, txid, block_hash) ==
    [request_id |-> request_id, txid |-> txid, block_hash |-> block_hash]

\* The reports the store returns to construct_tx_sighashes.
TxDepositReports ==
    [ outpoint   : {OutPoint(0, 0), OutPoint(1, 0)},
      status     : {Confirmed(0), Spent},
      can_sign   : {"SomeTrue", "SomeFalse"},
      can_accept : {"SomeTrue", "SomeFalse"},
      amount     : {100000000},
      max_fee    : {10000},
      lock_time  : {Blocks(DEPOSIT_LOCKTIME_BLOCK_BUFFER + 3)} ]

TxWithdrawalReports ==
    [ id : {RequestId(0, 1, 1), RequestId(1, 1, 1)}, amount : {1000}, max_fee : {10000} ]

\* Option<report>: what get_deposit_request_report returns.
NoReport == [some |-> FALSE]
SomeReport(r) == [some |-> TRUE, report |-> r]
Options(S) == {NoReport} \cup {SomeReport(r) : r \in S}

\* TxRequestIds over the outpoints and request ids of the uniqueness tests.
UniqueOutPoints == {OutPoint(1, 0), OutPoint(1, 1)}
UniqueRequestIds == {RequestId(0, 1, 1), RequestId(0, 1, 2)}
TxRequestIds ==
    [ deposits    : SeqsUpTo(UniqueOutPoints, MaxRequests),
      withdrawals : SeqsUpTo(UniqueRequestIds, MaxRequests) ]

IdleVd ==
    [ built |-> FALSE,
      signer_sighash |-> SignatureHash(SignerOutPoint, "signers_input"),
      deposit_sighashes |-> <<>>,
      reports |-> [deposits |-> <<>>, withdrawals |-> <<>>],
      tx |-> [input |-> <<>>],
      tx_fee |-> 0,
      chain_tip_height |-> 0 ]

TxIdle ==
    /\ vd = IdleVd
    /\ valid_tx = [done |-> FALSE, value |-> FALSE]
    /\ input_rows = [done |-> FALSE, rows |-> <<>>]
    /\ withdrawal_rows = [done |-> FALSE, rows |-> <<>>]
    /\ construct_result = "pending"

UniqIdle ==
    /\ request_packages = <<>>
    /\ pre_validation_result = "pending"

(***************************************************************************)
(* The vote-aware packager.                                                *)
(***************************************************************************)
\* MEMPOOL_ANCESTORS_MAX_VSIZE
MEMPOOL_ANCESTORS_MAX_VSIZE == 95000

\* u16::MAX, the width of Weighted2::mass and of max_mass.
U16_MAX == 65535

\* The number of signers voting, that is of bits used in Weighted2::votes.
VoteBits == 2

MaxItems == 3

\* u128::count_ones
RECURSIVE count_ones(_)
count_ones(n) == IF n = 0 THEN 0 ELSE (n % 2) + count_ones(n \div 2)

\* The | of two bitmaps.
RECURSIVE BitOr(_, _)
BitOr(a, b) ==
    IF a = 0 THEN b
    ELSE IF b = 0 THEN a
    ELSE (IF a % 2 = 1 \/ b % 2 = 1 THEN 1 ELSE 0) + 2 * BitOr(a \div 2, b \div 2)

RECURSIVE Pow2(_)
Pow2(n) == IF n = 0 THEN 1 ELSE 2 * Pow2(n - 1)

\* u16::saturating_add
SaturatingAdd16(a, b) == IF a + b > U16_MAX THEN U16_MAX ELSE a + b

\* u16 addition as a release build computes it.
WrappingAdd16(a, b) == (a + b) % (U16_MAX + 1)

\* Weighted2 items; id is the position of the item in the input.
SampleMasses == {1, U16_MAX}
SampleVsizes == {100, 47500}
SampleMaxMass == {1, 2, U16_MAX}
ItemValues ==
    [votes : 0..(Pow2(VoteBits) - 1), mass : SampleMasses, vsize : SampleVsizes]
WithIds(s) ==
    [i \in DOMAIN s |->
        [id |-> i, votes |-> s[i].votes, mass |-> s[i].mass, vsize |-> s[i].vsize]]

\* item_vec.sort_by_key(|(vote_count, _)| Reverse(*vote_count)): stable.
RECURSIVE InsertByVotes(_, _)
InsertByVotes(x, s) ==
    IF s = <<>> THEN <<x>>
    ELSE IF count_ones(x.votes) > count_ones(s[1].votes) THEN <<x>> \o s
    ELSE <<s[1]>> \o InsertByVotes(x, Tail(s))

RECURSIVE SortByVotesDesc(_)
SortByVotesDesc(s) ==
    IF s = <<>> THEN <<>>
    ELSE InsertByVotes(s[Len(s)], SortByVotesDesc(SubSeq(s, 1, Len(s) - 1)))

\* OptimalPackager::new
NewPackager == [bags |-> <<>>, total_vsize |-> 0]

\* OptimalPackager::find_best_key: the index of the first bag that can take
\* the item, 0 when there is none.
find_best_key(pk, limits, item) ==
    LET fits == {k \in DOMAIN pk.bags :
                    /\ count_ones(BitOr(pk.bags[k].votes, item.votes))
                          <= limits.max_votes_against
                    /\ SaturatingAdd16(pk.bags[k].mass, item.mass) <= limits.max_mass}
    IN  IF fits = {} THEN 0 ELSE CHOOSE k \in fits : \A j \in fits : k <= j

\* OptimalPackager::create_new_bag
create_new_bag(pk, item) ==
    [pk EXCEPT !.bags = Append(@, [votes |-> item.votes, mass |-> item.mass,
                                   items |-> <<item>>])]

\* A mutant of above_limits: an item that fills the vsize budget exactly is
\* rejected.
above_limits_vsize_ge(pk, limits, item) ==
    \/ count_ones(item.votes) > limits.max_votes_against
    \/ item.mass > limits.max_mass
    \/ pk.total_vsize + item.vsize >= MEMPOOL_ANCESTORS_MAX_VSIZE

\* Whether insert_item rejects the item.
above_limits(pk, limits, item) ==
    \/ count_ones(item.votes) > limits.max_votes_against
    \/ item.mass > limits.max_mass
    \/ pk.total_vsize + item.vsize > MEMPOOL_ANCESTORS_MAX_VSIZE

\* Whether `*mass += item.mass()` overflows u16 for the bag the item goes to.
mass_overflows(pk, limits, item) ==
    /\ ~above_limits(pk, limits, item)
    /\ find_best_key(pk, limits, item) # 0
    /\ pk.bags[find_best_key(pk, limits, item)].mass + item.mass > U16_MAX

\* OptimalPackager::insert_item, with u16 arithmetic that wraps.
insert_item(pk, limits, item) ==
    IF above_limits(pk, limits, item) THEN pk
    ELSE LET counted == [pk EXCEPT !.total_vsize = @ + item.vsize]
             k == find_best_key(counted, limits, item)
         IN  IF k # 0
             THEN [counted EXCEPT
                      !.bags[k] = [votes |-> BitOr(@.votes, item.votes),
                                   mass  |-> WrappingAdd16(@.mass, item.mass),
                                   items |-> Append(@.items, item)]]
             ELSE create_new_bag(counted, item)

PackIdle ==
    /\ pk_items = <<>>
    /\ pk_limits = [max_votes_against |-> 0, max_mass |-> 0]
    /\ item_vec = <<>>
    /\ packager = NewPackager
    /\ pk_pc = "idle"
    /\ pk_result = <<>>

(***************************************************************************)
(* The libp2p event loop.                                                  *)
(***************************************************************************)
\* The capacity of the signalling channel; SignerContext::init creates it
\* with tokio::sync::broadcast::channel(128), scaled down here.
SignalCapacity == 2

\* The P2PPublish commands the application sends.
MaxPublish == 3

\* The peers: one of the current signer set and one outside of it.
Peers == {"signer", "stranger"}
current_signer_set == {"signer"}

\* SignerSet::is_allowed_peer
is_allowed_peer(peer_id) == peer_id \in current_signer_set

\* The data of a gossipsub message: whether Msg::decode accepts the bytes
\* and whether the decoded message carries a valid signature of its signer.
GossipData == {[decodes |-> FALSE, signed |-> FALSE],
               [decodes |-> TRUE,  signed |-> FALSE],
               [decodes |-> TRUE,  signed |-> TRUE]}

\* Msg::decode: the data decodes or it does not; no signature is checked.
decode(data) == IF data.decodes THEN "Ok" ELSE "Err"

NoEvent == [kind |-> "None"]
\* The SwarmEvents that run tells apart.
SwarmEvents ==
    [kind : {"Message"}, peer_id : Peers, message : GossipData]
    \cup [kind : {"ConnectionEstablished", "ConnectionClosed"}, peer_id : Peers]

\* The signals on the bus.
P2PPublish(id)      == [kind |-> "P2PPublish", id |-> id]
PublishSuccess(id)  == [kind |-> "PublishSuccess", id |-> id]
PublishFailure(id)  == [kind |-> "PublishFailure", id |-> id]
MessageReceived(msg) == [kind |-> "MessageReceived", msg |-> msg]

\* broadcast::Sender::send, as the receiver signal_rx sees it: the channel
\* keeps the newest SignalCapacity values, and a receiver that is further
\* behind loses the oldest one and is marked as lagging.
bus_send(rx, signal) ==
    IF Len(rx.queue) >= SignalCapacity
    THEN [queue |-> Append(Tail(rx.queue), signal), lagged |-> TRUE]
    ELSE [queue |-> Append(rx.queue, signal), lagged |-> rx.lagged]

RECURSIVE bus_send_all(_, _)
bus_send_all(rx, signals) ==
    IF signals = <<>> THEN rx
    ELSE bus_send_all(bus_send(rx, signals[1]), Tail(signals))

\* The results of encoding and publishing one payload of the outbox.
PublishResults == {"EncodeErr", "PublishErr", "Published"}

\* The signal the drain of the outbox sends for a payload.
publish_signal(id, result) ==
    IF result = "Published" THEN PublishSuccess(id) ELSE PublishFailure(id)

\* The swarm's connections once ConnectionEstablished is handled without the
\* check of the signer set.
connection_established_keep(conns, peer_id) == conns

\* The swarm's connections once ConnectionEstablished is handled.
connection_established(conns, peer_id) ==
    IF ~is_allowed_peer(peer_id) THEN conns \ {peer_id} ELSE conns

\* A mutant of handle_gossipsub_event: data that does not decode is passed
\* on as well.
handle_gossipsub_event_any_data(ev) == is_allowed_peer(ev.peer_id)

\* handle_gossipsub_event for Event::Message: whether MessageReceived is sent.
handle_gossipsub_event(ev) ==
    /\ is_allowed_peer(ev.peer_id)
    /\ decode(ev.message) = "Ok"

P2PIdle ==
    /\ signal_rx = [queue |-> <<>>, lagged |-> FALSE]
    /\ outbox = <<>>
    /\ connections = {}
    /\ swarm_next = NoEvent
    /\ event = NoEvent
    /\ published = 0
    /\ outcomes = <<>>
    /\ delivered = NoEvent

(***************************************************************************)
(* The termination handle.                                                 *)
(***************************************************************************)
\* The tasks that take a termination handle.
MaxTasks == 3
Tasks == 1..MaxTasks

\* watch::channel(false)
NewTermChannel == [value |-> FALSE, version |-> 0]

\* TerminationHandle::signal_shutdown: send_if_modified sets the value, and
\* with it a new version, only when the value is false.
signal_shutdown(tx) ==
    IF ~tx.value THEN [value |-> TRUE, version |-> tx.version + 1] ELSE tx

\* watch::Sender::subscribe: the receiver starts with the current version
\* marked as seen.
subscribe(tx) == tx.version

\* watch::Receiver::changed is ready when the version has not been seen.
changed(tx, seen) == tx.version # seen

\* The calls of Context::signal that are followed.
MaxSignals == 3

\* Context::signal that reports the failed send and leaves the latch alone.
SignerContext_signal_no_shutdown(tx, receivers) ==
    IF receivers > 0
    THEN [result |-> "Ok", term_tx |-> tx]
    ELSE [result |-> "SignerShutdown", term_tx |-> tx]

\* Context::signal of SignerContext: broadcast::Sender::send fails when no
\* receiver is subscribed, and the error is answered with signal_shutdown on
\* a new termination handle.
SignerContext_signal(tx, receivers) ==
    IF receivers > 0
    THEN [result |-> "Ok", term_tx |-> tx]
    ELSE [result |-> "SignerShutdown", term_tx |-> signal_shutdown(tx)]

TermIdle ==
    /\ term_tx = NewTermChannel
    /\ tasks = [t \in Tasks |-> [pc |-> "idle", seen |-> 0]]
    /\ signal_receivers = 0
    /\ signal_log = <<>>

(***************************************************************************)
(* The in-memory network.                                                  *)
(***************************************************************************)
\* The capacity of InnerSignerNetwork.sent, 500 in dedup_buffer, scaled down.
DedupCapacity == 2

\* The capacity of the WAN channel, 10_000 in WanNetwork::new, scaled down.
WanCapacity == 3

\* The capacity of signer_tx, 1_000 in InnerSignerNetwork::new, scaled down.
SignerCapacity == 3

\* The messages broadcast in all.
MaxMsgs == 4

\* The signers connected to the WAN and the instances each has spawned.
Signers == {1, 2}
Instances == {1, 2}

\* A message: its id, and the signer whose instance broadcast it.
NetMsg(from, id) == [from |-> from, id |-> id]
NoMsg == [from |-> 0, id |-> 0]

\* InnerSignerNetwork::dedup_buffer that pops the id it has just pushed.
dedup_buffer_pop_back(sent_buffer, id) ==
    LET pushed == Append(sent_buffer, id)
    IN  IF Len(pushed) > DedupCapacity THEN sent_buffer ELSE pushed

\* InnerSignerNetwork::dedup_buffer
dedup_buffer(sent_buffer, id) ==
    LET pushed == Append(sent_buffer, id)
    IN  IF Len(pushed) > DedupCapacity THEN Tail(pushed) ELSE pushed

\* VecDeque::contains that looks at the newest id only.
contains_newest(sent_buffer, id) ==
    sent_buffer # <<>> /\ sent_buffer[Len(sent_buffer)] = id

\* VecDeque::contains, as the forwarding task calls it on sent.
contains(sent_buffer, id) == \E k \in DOMAIN sent_buffer : sent_buffer[k] = id

\* broadcast::Receiver::recv on a channel of the given capacity, for a
\* receiver that has taken pos of the values sent: Lagged when the next value
\* is no longer kept, else the next value.
recv_lagged(log, pos, capacity) == Len(log) - pos > capacity

NetIdle ==
    /\ wan = <<>>
    /\ sent = [s \in Signers |-> <<>>]
    /\ forwarder = [s \in Signers |-> [alive |-> TRUE, pos |-> 0]]
    /\ signer_tx = [s \in Signers |-> <<>>]
    /\ instance_rx = [s \in Signers |-> [i \in Instances |-> [pos |-> 0, msg |-> NoMsg]]]

(***************************************************************************)
(* The coordinator's lookup of the aggregate key and the signer set.       *)
(***************************************************************************)
\* The rows written to dkg_shares and the rotate-keys transactions written.
MaxShares == 2
MaxRotations == 2

\* The aggregate keys and the signer sets of the rows.
KeyRows == [aggregate_key : {1, 2}, signer_set : {{1, 2}, {2, 3}}]

\* A rotate-keys transaction; canonical tells whether its block is on the
\* Stacks chain that the bitcoin chain tip confirms.
RotateKeysRows ==
    [aggregate_key : {1, 2}, signer_set : {{1, 2}, {2, 3}}, canonical : BOOLEAN]

NoRow == [some |-> FALSE]
SomeRow(aggregate_key, signer_set) ==
    [some |-> TRUE, aggregate_key |-> aggregate_key, signer_set |-> signer_set]

\* DbRead::get_latest_encrypted_dkg_shares: the most recent row, None if the
\* table is empty.
get_latest_encrypted_dkg_shares(shares) ==
    IF shares = <<>> THEN NoRow
    ELSE SomeRow(shares[Len(shares)].aggregate_key, shares[Len(shares)].signer_set)

\* get_last_key_rotation that does not look at the chain.
get_last_key_rotation_any(txs) ==
    IF txs = <<>> THEN NoRow
    ELSE SomeRow(txs[Len(txs)].aggregate_key, txs[Len(txs)].signer_set)

\* DbRead::get_last_key_rotation: the latest rotate-keys transaction
\* confirmed by the chain tip.
get_last_key_rotation(txs) ==
    LET confirmed == {k \in DOMAIN txs : txs[k].canonical}
    IN  IF confirmed = {} THEN NoRow
        ELSE LET last == CHOOSE k \in confirmed : \A j \in confirmed : j <= k
             IN  SomeRow(txs[last].aggregate_key, txs[last].signer_set)

\* TxCoordinatorEventLoop::get_signer_set_and_aggregate_key
get_signer_set_and_aggregate_key(shares, txs) ==
    IF get_last_key_rotation(txs).some THEN get_last_key_rotation(txs)
    ELSE get_latest_encrypted_dkg_shares(shares)

KeysIdle ==
    /\ dkg_shares = <<>>
    /\ rotate_keys = <<>>
    /\ key_lookup = [done |-> FALSE, value |-> NoRow]

(***************************************************************************)
(* A DKG round between the coordinator and the signers.                    *)
(***************************************************************************)
\* The signers of the signing set; the first one is the coordinator.
NumSigners == 3
DkgSigners == 1..NumSigners

\* What a signer contributes to the group key with its public shares.
Contributions == {1, 2}

\* Config.dkg_threshold taken as one signer fewer than all.
dkg_threshold_all_but_one(num_signers) == num_signers - 1

\* Config.dkg_threshold taken as a majority of the signers.
dkg_threshold_majority(num_signers) == (num_signers \div 2) + 1

\* Config.dkg_threshold of CoordinatorStateMachine::new: num_signers.
dkg_threshold(num_signers) == num_signers

\* The messages of a kind that are on the network, and their senders.
DkgMessages(kind) == {msg \in dkg_net : msg.kind = kind}
DkgSenders(kind) == {msg.from : msg \in DkgMessages(kind)}

\* The group key that a set of DkgPublicShares messages yields.
RECURSIVE compute_group_key(_)
compute_group_key(shares) ==
    IF shares = {} THEN 0
    ELSE LET msg == CHOOSE m \in shares : TRUE
         IN  msg.share + compute_group_key(shares \ {msg})

\* The gather state that follows a gather state, and the message that the
\* coordinator broadcasts on the way.
NextGather(state) ==
    CASE state = "DkgPublicGather" -> [state |-> "DkgPrivateGather", kind |-> "DkgPrivateBegin"]
      [] state = "DkgPrivateGather" -> [state |-> "DkgEndGather", kind |-> "DkgEndBegin"]
      [] state = "DkgEndGather" -> [state |-> "Idle", kind |-> "None"]

\* The message a gather state collects.
Gathers(state) ==
    CASE state = "DkgPublicGather" -> "DkgPublicShares"
      [] state = "DkgPrivateGather" -> "DkgPrivateShares"
      [] state = "DkgEndGather" -> "DkgEnd"
      [] OTHER -> "None"

DkgIdle ==
    /\ dkg_coord = [state |-> "Idle", gathered |-> {}, aggregate_key |-> 0,
                    error |-> FALSE]
    /\ dkg_party = [i \in DkgSigners |-> "Idle"]
    /\ dkg_net = {}
    /\ dkg_store = [i \in DkgSigners |-> {}]

(***************************************************************************)
(* Loading WSTS state machines from stored DKG shares.                     *)
(***************************************************************************)
\* Points of the curve: two points share each x coordinate.
XCoordinates == {1, 2}
Points == [x : XCoordinates, odd : BOOLEAN]
NoPoint == [x |-> 0, odd |-> FALSE]

\* Point::x: the x coordinate, the key of a dkg_shares row.
x(point) == point.x

\* The private keys of the signers; a public key is written as its private
\* key.
PrivateKeys == {1, 2}
SignerSets == {{1, 2, 3}, {2, 3}}
Thresholds == {2, 3}

\* A row as SignerStateMachine::get_encrypted_dkg_shares builds it: keyed by
\* the x coordinate of the group key of the saved party state, the saved
\* state encrypted under the signer's private key, with the public shares.
EncryptedDkgShares(group_key, private_key, public_shares) ==
    [some |-> TRUE,
     aggregate_key |-> x(group_key),
     group_key |-> group_key,
     encrypted_with |-> private_key,
     public_shares |-> public_shares]

NoShares ==
    [some |-> FALSE, aggregate_key |-> 0, group_key |-> NoPoint,
     encrypted_with |-> 0, public_shares |-> 0]

\* DbRead::get_encrypted_dkg_shares
get_encrypted_dkg_shares(storage, aggregate_key) ==
    IF aggregate_key \in DOMAIN storage THEN storage[aggregate_key] ELSE NoShares

LoadErr(error) ==
    [ok |-> FALSE, error |-> error, state |-> "None", aggregate_key |-> NoPoint]
LoadOk(state, aggregate_key) ==
    [ok |-> TRUE, error |-> "None", state |-> state, aggregate_key |-> aggregate_key]

\* SignerStateMachine::new: a machine in the Idle state that holds no party
\* state yet.
SignerStateMachine_new(signers, threshold, signer_private_key) ==
    IF signer_private_key \notin signers THEN LoadErr("MissingPublicKey")
    ELSE IF threshold > Cardinality(signers) THEN LoadErr("InvalidConfiguration")
    ELSE LoadOk("Idle", NoPoint)

\* SignerStateMachine::load: the machine is a new one whose signer is the
\* party of the saved state, group key included.
SignerStateMachine_load(storage, aggregate_key, signers, threshold, signer_private_key) ==
    LET encrypted_shares == get_encrypted_dkg_shares(storage, x(aggregate_key))
        state_machine == SignerStateMachine_new(signers, threshold, signer_private_key)
    IN  IF ~encrypted_shares.some THEN LoadErr("MissingDkgShares")
        ELSE IF encrypted_shares.encrypted_with # signer_private_key
        THEN LoadErr("Encryption")
        ELSE IF ~state_machine.ok THEN state_machine
        ELSE LoadOk(state_machine.state, encrypted_shares.group_key)

\* The state of a new coordinator after DkgBegin and the stored public
\* shares: it leaves DkgPublicGather once it has the shares of all signers.
AfterPublicShares(signers, public_shares) ==
    IF public_shares >= Cardinality(signers) THEN "DkgPrivateDistribute"
    ELSE "DkgPublicGather"

\* CoordinatorStateMachine::load; debug_assertions tells the build, whose
\* debug_assert_eq! on the state panics only in a debug build.
CoordinatorStateMachine_load(storage, aggregate_key, signers, debug_assertions) ==
    LET encrypted_shares == get_encrypted_dkg_shares(storage, x(aggregate_key))
        state == AfterPublicShares(signers, encrypted_shares.public_shares)
    IN  IF ~encrypted_shares.some THEN LoadErr("MissingDkgShares")
        ELSE IF debug_assertions /\ state # "DkgPrivateDistribute"
        THEN LoadErr("panic")
        ELSE LoadOk("Idle", aggregate_key)

NotLoaded == [kind |-> "None", aggregate_key |-> NoPoint, result |-> LoadErr("None")]

LoadIdle ==
    /\ shares_rows = << >>
    /\ loaded = NotLoaded

(***************************************************************************)
(* The signer UTXO resolver.                                               *)
(***************************************************************************)
MaxBitcoinTxs == 2

\* Three blocks: block 1 at height 1 and two competing blocks at height 2.
BitcoinBlocks == {1, 2, 3}
block_height(block) == IF block = 1 THEN 1 ELSE 2
ChainTips == {2, 3}

\* The blocks of the canonical chain that ends at a chain tip.
canonical_chain(chain_tip) == {1, chain_tip}

AggregateKeys == {1, 2}
signers_script_pubkey(aggregate_key) == <<"p2tr", aggregate_key>>

NoOutPoint == [txid |-> 0, vout |-> 0]
UtxoOutPoint(txid, vout) == [txid |-> txid, vout |-> vout]

\* The transactions the store may hold next: two outputs each, and at most
\* one input, which spends an output of an earlier transaction.
NewBitcoinTxs(txs) ==
    [txid : {Len(txs) + 1},
     block : BitcoinBlocks,
     script_pubkeys : [{0, 1} -> {signers_script_pubkey(k) : k \in AggregateKeys}],
     prevout : {NoOutPoint} \cup {UtxoOutPoint(t, v) : t \in 1..Len(txs), v \in {0, 1}}]

\* Condition 4: no transaction of the canonical chain spends the output.
is_unspent(txs, chain_tip, outpoint) ==
    \A i \in DOMAIN txs :
        txs[i].block \in canonical_chain(chain_tip) => txs[i].prevout # outpoint

\* Conditions 1 to 3 with any output of the transaction taken for its first.
is_candidate_any_output(txs, chain_tip, aggregate_key, i, vout) ==
    /\ txs[i].block \in canonical_chain(chain_tip)
    /\ txs[i].script_pubkeys[vout] = signers_script_pubkey(aggregate_key)
    /\ is_unspent(txs, chain_tip, UtxoOutPoint(txs[i].txid, vout))

\* Conditions 1 to 4 for output vout of transaction i.
is_candidate(txs, chain_tip, aggregate_key, i, vout) ==
    /\ txs[i].block \in canonical_chain(chain_tip)
    /\ vout = 0
    /\ txs[i].script_pubkeys[vout] = signers_script_pubkey(aggregate_key)
    /\ is_unspent(txs, chain_tip, UtxoOutPoint(txs[i].txid, vout))

\* DbRead::get_signer_utxo: of the candidates, the one in the block of the
\* greatest height; TooManySignerUtxos if that block holds several.
get_signer_utxo(txs, chain_tip, aggregate_key) ==
    LET candidates == {c \in (DOMAIN txs) \X {0, 1} :
                          is_candidate(txs, chain_tip, aggregate_key, c[1], c[2])}
        highest == {c \in candidates :
                       \A d \in candidates :
                           block_height(txs[d[1]].block) <= block_height(txs[c[1]].block)}
    IN  IF candidates = {} THEN [ok |-> TRUE, some |-> FALSE, outpoint |-> NoOutPoint]
        ELSE IF Cardinality(highest) > 1
        THEN [ok |-> FALSE, some |-> FALSE, outpoint |-> NoOutPoint]
        ELSE LET c == CHOOSE c \in highest : TRUE
             IN  [ok |-> TRUE, some |-> TRUE,
                  outpoint |-> UtxoOutPoint(txs[c[1]].txid, c[2])]

NoLookup ==
    [done |-> FALSE, chain_tip |-> 0, aggregate_key |-> 0,
     result |-> [ok |-> TRUE, some |-> FALSE, outpoint |-> NoOutPoint]]

UtxoIdle ==
    /\ bitcoin_txs = << >>
    /\ utxo_lookup = NoLookup

(***************************************************************************)
(* Bitcoin transaction sign requests.                                      *)
(***************************************************************************)
MaxSignRequests == 2

\* The outpoints of the deposit requests the store may know, and one that
\* it never knows, as the inputs of a transaction made of random bytes.
StoredOutPoints == {1, 2}
RandomOutPoint == 3

\* The transactions a sign request may carry, as their sets of inputs.
RequestedTxs == SUBSET (StoredOutPoints \cup {RandomOutPoint})

\* testing::dummy::tx: inputs that spend random transaction ids.
dummy_tx == {RandomOutPoint}

\* The signer's validation of a requested transaction against its store: a
\* request the store has no report for makes the transaction invalid.
is_valid_sign_request(tx, store) == tx # {} /\ tx \subseteq store

\* The replies of the signer to a sign request, TRUE for an acknowledgement:
\* a transaction is acknowledged if it is valid (section 4.4), and so is the
\* dummy transaction, for which
\* assert_should_respond_to_bitcoin_transaction_sign_requests_impl waits for
\* the acknowledgement.
handle_bitcoin_transaction_sign_request(tx, store) ==
    IF tx = dummy_tx THEN {TRUE} ELSE {is_valid_sign_request(tx, store)}

SignIdle ==
    /\ sign_store = {}
    /\ sign_requests = << >>
    /\ sign_replies = << >>

(***************************************************************************)
(* Peer discovery of the libp2p event loop.                                *)
(***************************************************************************)
MaxDiscoveryEvents == 3

\* mdns::Event and identify::Event::Received, with the peers they name.
DiscoveryEvents ==
    [kind : {"Discovered", "Expired"}, peers : (SUBSET Peers) \ {{}}]
    \cup [kind : {"Received"}, peers : {{p} : p \in Peers}]

\* handle_mdns_event: the explicit peers of gossipsub after the event.
handle_mdns_event(explicit, mdns_enabled, ev) ==
    CASE ev.kind = "Discovered" ->
            IF ~mdns_enabled THEN explicit
            ELSE explicit \cup {peer_id \in ev.peers : is_allowed_peer(peer_id)}
      [] ev.kind = "Expired" -> explicit \ ev.peers
      [] OTHER -> explicit

\* handle_identify_event: the peers whose observed address is added as an
\* external address; the explicit peers of gossipsub are not touched.
handle_identify_event(addresses, ev) ==
    IF ev.kind = "Received"
    THEN addresses \cup {peer_id \in ev.peers : is_allowed_peer(peer_id)}
    ELSE addresses

DiscIdle ==
    /\ enable_mdns = FALSE
    /\ explicit_peers = {}
    /\ external_addresses = {}
    /\ discovery_log = << >>

(***************************************************************************)
(* Validation data of a package of transactions.                           *)
(***************************************************************************)
MaxPackageTxs == 3

\* SignerBtcState.last_fees: Option<Fees>
NoFees == [some |-> FALSE, total |-> 0, rate |-> 0]
SomeFees(total, rate) == [some |-> TRUE, total |-> total, rate |-> rate]

\* SignerBtcState, as far as the construction of a package reads and writes it.
SignerBtcState(utxo, last_fees) == [utxo |-> utxo, last_fees |-> last_fees]

\* The txid of a transaction, a digest of its inputs.
RECURSIVE compute_txid(_)
compute_txid(tx) ==
    IF tx.input = <<>> THEN 100
    ELSE LET outpoint == tx.input[Len(tx.input)].previous_output
         IN  (16 * compute_txid([input |-> SubSeq(tx.input, 1, Len(tx.input) - 1)])
              + 2 * outpoint.txid + outpoint.vout + 1) % 1000003

\* UnsignedTransaction::new_signer_utxo: the signers' output is the first
\* output of the transaction.
new_signer_utxo(tx) == OutPoint(compute_txid(tx), 0)

\* The deposit and withdrawal reports of the store of the package.
package_deposit_report(outpoint) ==
    IF outpoint = OutPoint(2, 0) THEN NoReport
    ELSE SomeReport([ outpoint   |-> outpoint,
                      status     |-> Confirmed(0),
                      can_sign   |-> "SomeTrue",
                      can_accept |-> "SomeTrue",
                      amount     |-> 100000000,
                      max_fee    |-> 10000,
                      lock_time  |-> Blocks(DEPOSIT_LOCKTIME_BLOCK_BUFFER + 3) ])

package_withdrawal_report(id) ==
    IF id = RequestId(2, 1, 1) THEN NoReport
    ELSE SomeReport([id |-> id, amount |-> 1000, max_fee |-> 10000])

\* BitcoinTxContext::construct_tx_sighashes: the validation data of one
\* transaction and the signer state after it.
construct_tx_sighashes(requests, signer_state) ==
    LET deps == [i \in DOMAIN requests.deposits |->
                    package_deposit_report(requests.deposits[i])]
        wds  == [i \in DOMAIN requests.withdrawals |->
                    package_withdrawal_report(requests.withdrawals[i])]
    IN  IF \E i \in DOMAIN deps : ~deps[i].some
        THEN [ok |-> FALSE, error |-> "Deposit(Unknown)"]
        ELSE IF \E i \in DOMAIN wds : ~wds[i].some
        THEN [ok |-> FALSE, error |-> "Withdrawal(Unknown)"]
        ELSE LET deposits    == SortDeposits([i \in DOMAIN deps |-> deps[i].report])
                 withdrawals == SortWithdrawals([i \in DOMAIN wds |-> wds[i].report])
                 tx == create_transaction(deposits, withdrawals, signer_state.utxo)
             IN  [ ok |-> TRUE,
                   out |-> [ signer_sighash |->
                                 SignatureHash(signer_state.utxo, "signers_input"),
                             deposit_sighashes |->
                                 [i \in DOMAIN deposits |->
                                     SignatureHash(deposits[i].outpoint, "deposit")],
                             reports |-> [ deposits |-> deposits,
                                           withdrawals |-> withdrawals,
                                           signer_state |-> signer_state ],
                             tx |-> tx ],
                   signer_state |-> SignerBtcState(new_signer_utxo(tx), NoFees) ]

\* A mutant of construct_package_sighashes: every transaction of the package
\* is built from the signer state of the context.
RECURSIVE construct_package_sighashes_same_state(_, _, _)
construct_package_sighashes_same_state(pkgs, signer_state, outputs) ==
    IF pkgs = <<>> THEN [ok |-> TRUE, outputs |-> outputs]
    ELSE LET r == construct_tx_sighashes(pkgs[1], signer_state)
         IN  IF ~r.ok THEN [ok |-> FALSE, error |-> r.error]
             ELSE construct_package_sighashes_same_state(
                      Tail(pkgs), signer_state, Append(outputs, r.out))

\* A mutant of construct_package_sighashes: a transaction with a request that
\* has no report is left out, the others are returned.
RECURSIVE construct_package_sighashes_skip_unknown(_, _, _)
construct_package_sighashes_skip_unknown(pkgs, signer_state, outputs) ==
    IF pkgs = <<>> THEN [ok |-> TRUE, outputs |-> outputs]
    ELSE LET r == construct_tx_sighashes(pkgs[1], signer_state)
         IN  IF ~r.ok
             THEN construct_package_sighashes_skip_unknown(
                      Tail(pkgs), signer_state, outputs)
             ELSE construct_package_sighashes_skip_unknown(
                      Tail(pkgs), r.signer_state, Append(outputs, r.out))

\* BitcoinTxContext::construct_package_sighashes: the loop over the request
\* packages, with the signer state and the outputs so far.
RECURSIVE construct_package_sighashes(_, _, _)
construct_package_sighashes(pkgs, signer_state, outputs) ==
    IF pkgs = <<>> THEN [ok |-> TRUE, outputs |-> outputs]
    ELSE LET r == construct_tx_sighashes(pkgs[1], signer_state)
         IN  IF ~r.ok THEN [ok |-> FALSE, error |-> r.error]
             ELSE construct_package_sighashes(
                      Tail(pkgs), r.signer_state, Append(outputs, r.out))

\* The requests of one transaction of a package.
PackageRequests ==
    [ deposits    : {<<>>, <<OutPoint(0, 0)>>, <<OutPoint(1, 1), OutPoint(1, 0)>>,
                     <<OutPoint(2, 0)>>},
      withdrawals : {<<>>, <<RequestId(0, 1, 1)>>, <<RequestId(2, 1, 1)>>} ]

BitcoinTxContexts ==
    [ request_packages : SeqsUpTo(PackageRequests, MaxPackageTxs),
      signer_state : {SignerBtcState(SignerOutPoint, NoFees),
                      SignerBtcState(SignerOutPoint, SomeFees(1000, 5))} ]

PkgIdle ==
    /\ tx_context = [request_packages |-> <<>>,
                     signer_state |-> SignerBtcState(SignerOutPoint, NoFees)]
    /\ package_result = [done |-> FALSE]

(***************************************************************************)
(* The request decider.                                                    *)
(***************************************************************************)
MaxDeciderRequests == 2

DeciderOutPoints == 1..MaxDeciderRequests

\* model::DepositSigner of this signer
DepositSigner(outpoint, can_accept, can_sign) ==
    [outpoint |-> outpoint, can_accept |-> can_accept, can_sign |-> can_sign]

\* DbRead::get_deposit_signers, restricted to the rows of this signer.
get_deposit_signers(rows, outpoint) ==
    SelectSeq(rows, LAMBDA row : row.outpoint = outpoint)

\* DbRead::get_pending_deposit_requests: the requests this signer has not
\* decided on yet.
get_pending_deposit_requests(requests, rows) ==
    {outpoint \in requests : get_deposit_signers(rows, outpoint) = <<>>}

\* A mutant of the steps of the handler: the decision is sent before it is
\* written.
handle_pending_deposit_request_send_first == <<"decide", "send", "write">>

\* The steps of handle_pending_deposit_request, in order: the blocklist and
\* signing-set checks, the write of the decision, the broadcast of it.
handle_pending_deposit_request == <<"decide", "write", "send">>

DeciderWaiting == [pc |-> 0, decision |-> DepositSigner(0, FALSE, FALSE)]

\* The step the handler is at, "none" between two requests.
DeciderStep ==
    IF decider.pc \in DOMAIN handle_pending_deposit_request
    THEN handle_pending_deposit_request[decider.pc]
    ELSE "none"

\* The handler after a step: the next step, or waiting after the last one.
DeciderAdvance ==
    IF decider.pc < Len(handle_pending_deposit_request)
    THEN [decider EXCEPT !.pc = @ + 1]
    ELSE DeciderWaiting

DecIdle ==
    /\ decider_in_signing_set = FALSE
    /\ deposit_requests = {}
    /\ deposit_signers = <<>>
    /\ decider = DeciderWaiting
    /\ decisions_sent = <<>>

(***************************************************************************)
(* The weight pk: best-fit decreasing.                               *)
(***************************************************************************)
MaxWeightedItems == 6

ItemWeights == {0, 3, 4}
BagCapacities == {3, 10}

\* The items of a call: each a weight, told apart by its place in the input.
WeightedItems(weights) == [i \in DOMAIN weights |-> [id |-> i, weight |-> weights[i]]]

\* item_vec.sort_by_key(|(weight, _)| Reverse(*weight)): a stable sort.
RECURSIVE InsertByWeight(_, _)
InsertByWeight(item, s) ==
    IF s = <<>> THEN <<item>>
    ELSE IF item.weight > s[1].weight THEN <<item>> \o s
    ELSE <<s[1]>> \o InsertByWeight(item, Tail(s))

RECURSIVE SortByWeightDesc(_)
SortByWeightDesc(s) ==
    IF s = <<>> THEN <<>>
    ELSE InsertByWeight(s[Len(s)], SortByWeightDesc(SubSeq(s, 1, Len(s) - 1)))

\* BestFitPackager::new: bags is the map from (capacity left, bag id) to the
\* items of the bag, here the set of its entries.
BestFitPackager_new(capacity) == [next_id |-> 0, bags |-> {}, capacity |-> capacity]

\* Ord of the keys (u32, BagId) of the map.
BagKeyLess(a, b) ==
    a.capacity < b.capacity \/ (a.capacity = b.capacity /\ a.id < b.id)

\* The first entry of a non-empty set of entries, in the order of the keys.
FirstBag(entries) ==
    CHOOSE e \in entries : \A o \in entries : o = e \/ BagKeyLess(e, o)

\* A mutant of find_best_key: no bag is ever found.
BestFitPackager_find_best_key_none(pk, weight) == {}

\* BestFitPackager::find_best_key: the first entry from the key (weight, 0)
\* on, as the set of at most one entry.
BestFitPackager_find_best_key(pk, weight) ==
    LET range == {e \in pk.bags : e.capacity >= weight}
    IN  IF range = {} THEN {} ELSE {FirstBag(range)}

\* BestFitPackager::create_new_bag
BestFitPackager_create_new_bag(pk, weight, item) ==
    [pk EXCEPT
        !.next_id = @ + 1,
        !.bags = @ \cup {[capacity |-> SaturatingSub(pk.capacity, weight),
                          id |-> pk.next_id,
                          items |-> <<item>>]}]

\* A mutant of insert_item: an item heavier than the capacity is not left out.
BestFitPackager_insert_item_any_weight(pk, weight, item) ==
    LET entry == BestFitPackager_find_best_key(pk, weight)
    IN  IF entry # {}
        THEN LET e == CHOOSE e \in entry : TRUE
             IN  [pk EXCEPT
                    !.bags = (@ \ {e}) \cup {[capacity |-> e.capacity - weight,
                                              id |-> e.id,
                                              items |-> Append(e.items, item)]}]
        ELSE BestFitPackager_create_new_bag(pk, weight, item)

\* BestFitPackager::insert_item
BestFitPackager_insert_item(pk, weight, item) ==
    IF weight > pk.capacity THEN pk
    ELSE LET entry == BestFitPackager_find_best_key(pk, weight)
         IN  IF entry # {}
             THEN LET e == CHOOSE e \in entry : TRUE
                  IN  [pk EXCEPT
                         !.bags = (@ \ {e}) \cup {[capacity |-> e.capacity - weight,
                                                   id |-> e.id,
                                                   items |-> Append(e.items, item)]}]
             ELSE BestFitPackager_create_new_bag(pk, weight, item)

\* BTreeMap::into_values: the bags in the order of their keys.
RECURSIVE into_values(_)
into_values(entries) ==
    IF entries = {} THEN <<>>
    ELSE <<FirstBag(entries).items>> \o into_values(entries \ {FirstBag(entries)})

\* The loop of compute_optimal_packages over the sorted items.
RECURSIVE InsertAll(_, _)
InsertAll(pk, items) ==
    IF items = <<>> THEN pk
    ELSE InsertAll(BestFitPackager_insert_item(pk, items[1].weight, items[1]),
                   Tail(items))

\* compute_optimal_packages
compute_optimal_packages(items, capacity) ==
    into_values(InsertAll(BestFitPackager_new(capacity), SortByWeightDesc(items)).bags)

\* The total weight of a bag.
RECURSIVE total_weight(_)
total_weight(bag) ==
    IF bag = <<>> THEN 0 ELSE bag[1].weight + total_weight(Tail(bag))

\* The least number of bags of the given capacity that hold all the items
\* that fit in a bag: each item in turn goes into a bag in use or a new one.
RECURSIVE MinBags(_, _, _)
MinBags(items, capacity, loads) ==
    IF items = <<>> THEN Len(loads)
    ELSE IF items[1].weight > capacity THEN MinBags(Tail(items), capacity, loads)
    ELSE LET w == items[1].weight
             into == {MinBags(Tail(items), capacity, [loads EXCEPT ![i] = @ + w]) :
                         i \in {j \in DOMAIN loads : loads[j] + w <= capacity}}
             fresh == MinBags(Tail(items), capacity, Append(loads, w))
             all == into \cup {fresh}
         IN  CHOOSE n \in all : \A o \in all : n <= o

OptimalBags(items, capacity) == MinBags(items, capacity, <<>>)

BfdIdle ==
    /\ weighted_items = <<>>
    /\ bag_capacity = 0
    /\ packages_result = [done |-> FALSE, bags |-> <<>>]

(***************************************************************************)
(* The ZeroMQ message stream of bitcoin-core.                              *)
(***************************************************************************)
MaxZmqMessages == 2

\* A block hash is 32 bytes; the sequence number 4 bytes, little endian.
HashBytes == [i \in 1..32 |-> i]
SequenceBytes == <<1, 1, 0, 0>>

\* A stand-in for consensus encoding: a block is encoded as one byte.
RawBlocks == {<<1>>, <<2>>}

\* The multipart messages a socket can receive.
ZmqMessages ==
    {<<topic, body, seq>> :
        topic \in {"hashblock", "rawblock", "rawtx"},
        body \in {HashBytes, <<1>>, <<>>},
        seq \in {SequenceBytes, <<1>>}}
    \cup {<<"rawblock", <<1>>>>}

reverse(bytes) == [i \in DOMAIN bytes |-> bytes[Len(bytes) + 1 - i]]

RECURSIVE from_le_bytes(_)
from_le_bytes(bytes) ==
    IF bytes = <<>> THEN 0 ELSE bytes[1] + 256 * from_le_bytes(Tail(bytes))

ZmqErr(error) == [ok |-> FALSE, error |-> error]
HashBlock(block_hash, sequence) ==
    [ok |-> TRUE, kind |-> "HashBlock", value |-> block_hash, sequence |-> sequence]
RawBlock(block, sequence) ==
    [ok |-> TRUE, kind |-> "RawBlock", value |-> block, sequence |-> sequence]

\* parse_bitcoin_core_message
parse_bitcoin_core_message(message) ==
    IF Len(message) # 3 THEN ZmqErr("Encryption")
    ELSE CASE message[1] = "hashblock" ->
                 IF Len(message[2]) # 32 THEN ZmqErr("Encryption")
                 ELSE IF Len(message[3]) # 4 THEN ZmqErr("Encryption")
                 ELSE HashBlock(reverse(message[2]), from_le_bytes(message[3]))
           [] message[1] = "rawblock" ->
                 IF message[2] \notin RawBlocks THEN ZmqErr("DecodeBitcoinBlock")
                 ELSE IF Len(message[3]) # 4 THEN ZmqErr("Encryption")
                 ELSE RawBlock(message[2][1], from_le_bytes(message[3]))
           [] OTHER -> ZmqErr("Encryption")

\* The filter_map of to_block_stream on one item of the message stream:
\* the items it yields, none or one.
to_block_stream(msg) ==
    IF msg.ok /\ msg.kind = "RawBlock" THEN <<[ok |-> TRUE, value |-> msg.value]>>
    ELSE IF msg.ok THEN <<>>
    ELSE <<msg>>

ZmqIdle ==
    /\ zmq_socket = <<>>
    /\ message_stream = <<>>
    /\ block_stream = <<>>

(***************************************************************************)
(* Conversions between 32-byte arrays and Uint256.                         *)
(***************************************************************************)
\* A u64 is the vector of its 64 bits, the least significant first.
byte_bits(byte) == [i \in 1..8 |-> (byte \div Pow2(i - 1)) % 2]
bits_byte(bits) ==
    bits[1] + 2 * bits[2] + 4 * bits[3] + 8 * bits[4]
    + 16 * bits[5] + 32 * bits[6] + 64 * bits[7] + 128 * bits[8]

\* A mutant of u64::from_le_bytes: the first byte is the most significant.
u64_from_be_bytes(part) ==
    [k \in 1..64 |-> byte_bits(part[8 - ((k - 1) \div 8)])[((k - 1) % 8) + 1]]

\* u64::from_le_bytes: the first byte is the least significant.
u64_from_le_bytes(part) ==
    [k \in 1..64 |-> byte_bits(part[((k - 1) \div 8) + 1])[((k - 1) % 8) + 1]]

\* u64::to_le_bytes
u64_to_le_bytes(value) ==
    [j \in 1..8 |-> bits_byte([i \in 1..8 |-> value[8 * (j - 1) + i]])]

\* impl From<[u8; 32]> for Uint256
Uint256_from_bytes(value) ==
    [ bits_part0 |-> u64_from_le_bytes(SubSeq(value, 1, 8)),
      bits_part1 |-> u64_from_le_bytes(SubSeq(value, 9, 16)),
      bits_part2 |-> u64_from_le_bytes(SubSeq(value, 17, 24)),
      bits_part3 |-> u64_from_le_bytes(SubSeq(value, 25, 32)) ]

\* impl From<Uint256> for [u8; 32]
bytes_from_Uint256(value) ==
    u64_to_le_bytes(value.bits_part0) \o u64_to_le_bytes(value.bits_part1)
    \o u64_to_le_bytes(value.bits_part2) \o u64_to_le_bytes(value.bits_part3)

\* Eight bytes of an array, and the u64 values of a part, that the
\* conversions are applied to.
SampleParts == {<<0, 0, 0, 0, 0, 0, 0, 0>>,
                <<1, 2, 3, 4, 5, 6, 7, 8>>,
                <<255, 0, 0, 0, 0, 0, 0, 128>>}
SampleU64 == {[k \in 1..64 |-> 0],
              [k \in 1..64 |-> IF k = 1 THEN 1 ELSE 0],
              [k \in 1..64 |-> IF k % 3 = 0 \/ k = 64 THEN 1 ELSE 0]}

ByteArrays == {a \o b \o c \o d : a \in SampleParts, b \in SampleParts,
                                  c \in SampleParts, d \in SampleParts}
Uint256s == [bits_part0 : SampleU64, bits_part1 : SampleU64,
             bits_part2 : SampleU64, bits_part3 : SampleU64]

ConvIdle ==
    /\ conv_input = [kind |-> "bytes", value |-> <<>>]
    /\ conv_trail = <<>>

(***************************************************************************)
(* The signer bitmap of a withdrawal: stacks/contracts.rs turns it into   *)
(* the uint argument of the contract call, stacks/events.rs turns the     *)
(* uint of the print event back into a bitmap.  A BitArray is the set of  *)
(* the indices of its set bits (bit order Lsb0), a u128 is the set of the *)
(* exponents of its binary digits that are one.                            *)
(***************************************************************************)
BitIndices == 0..127

\* The bitmaps that are tried: bits at the ends of bytes and of words.
SampleBitIndices == {0, 1, 7, 8, 63, 64, 127}

\* BitField::load of a BitArray<[u64; 2]> on a little-endian target: the
\* bit at position p of word w is the binary digit 64 * w + p.
BitArray_load(bits) ==
    {64 * (i \div 64) + (i % 64) : i \in bits}

\* u128::to_le_bytes: byte k holds the digits 8 * (k - 1) .. 8 * (k - 1) + 7.
u128_to_le_bytes(uint) ==
    [k \in 1..16 |->
        bits_byte([b \in 1..8 |-> IF 8 * (k - 1) + (b - 1) \in uint THEN 1 ELSE 0])]

\* u128::to_be_bytes: the first byte holds the most significant digits.
u128_to_be_bytes(uint) ==
    [k \in 1..16 |->
        bits_byte([b \in 1..8 |-> IF 8 * (16 - k) + (b - 1) \in uint THEN 1 ELSE 0])]

\* BitArray::<[u8; 16]>::new: bit 8 * (k - 1) + b is bit b of byte k.
BitArray_new(bytes) ==
    {i \in BitIndices : byte_bits(bytes[(i \div 8) + 1])[(i % 8) + 1] = 1}

\* AsContractCall::as_contract_args of AcceptWithdrawalV1 and of
\* RejectWithdrawalV1 (the arguments that are kept are the request id and
\* the bitmap).
as_contract_args(call) ==
    IF call.function = "accept-withdrawal-request"
    THEN [function |-> call.function, request_id |-> call.request_id,
          bitmap |-> BitArray_load(call.signer_bitmap), fee |-> call.tx_fee]
    ELSE [function |-> call.function, request_id |-> call.request_id,
          bitmap |-> BitArray_load(call.signer_bitmap)]

\* complete-withdrawal-accept and complete-withdrawal-reject of the
\* sbtc-registry contract print the uint they were called with.
contract_print(args) ==
    IF args.function = "accept-withdrawal-request"
    THEN [topic |-> "withdrawal-accept", request_id |-> args.request_id,
          signer_bitmap |-> args.bitmap, fee |-> args.fee]
    ELSE [topic |-> "withdrawal-reject", request_id |-> args.request_id,
          signer_bitmap |-> args.bitmap]

\* events.rs, withdrawal_accept
withdrawal_accept(tuple) ==
    [kind |-> "WithdrawalAccept", request_id |-> tuple.request_id,
     signer_bitmap |-> BitArray_new(u128_to_be_bytes(tuple.signer_bitmap)),
     fee |-> tuple.fee]

\* events.rs, withdrawal_reject
withdrawal_reject(tuple) ==
    [kind |-> "WithdrawalReject", request_id |-> tuple.request_id,
     signer_bitmap |-> BitArray_new(u128_to_le_bytes(tuple.signer_bitmap))]

WithdrawalCalls ==
    [function : {"accept-withdrawal-request"}, request_id : {1},
     signer_bitmap : SUBSET SampleBitIndices, tx_fee : {0}]
    \cup [function : {"reject-withdrawal"}, request_id : {1},
          signer_bitmap : SUBSET SampleBitIndices]

NoValue == [kind |-> "None"]

BitmapIdle ==
    /\ withdrawal_call = NoValue
    /\ contract_args = NoValue
    /\ print_event = NoValue
    /\ registry_event = NoValue

(***************************************************************************)
(* Actions.                                                                *)
(***************************************************************************)
\* The parts that are not running, for the initial state of each part.
IdleExceptVal == TxIdle /\ UniqIdle /\ PackIdle /\ P2PIdle /\ TermIdle /\
                 NetIdle /\ KeysIdle /\ DkgIdle /\ LoadIdle /\ UtxoIdle /\
                 SignIdle /\ DiscIdle /\ PkgIdle /\ DecIdle /\ BfdIdle /\
                 ZmqIdle /\ ConvIdle /\ BitmapIdle
IdleExceptTx == ValIdle /\ UniqIdle /\ PackIdle /\ P2PIdle /\ TermIdle /\
                NetIdle /\ KeysIdle /\ DkgIdle /\ LoadIdle /\ UtxoIdle /\
                SignIdle /\ DiscIdle /\ PkgIdle /\ DecIdle /\ BfdIdle /\
                ZmqIdle /\ ConvIdle /\ BitmapIdle
IdleExceptUniq == ValIdle /\ TxIdle /\ PackIdle /\ P2PIdle /\ TermIdle /\
                  NetIdle /\ KeysIdle /\ DkgIdle /\ LoadIdle /\ UtxoIdle /\
                  SignIdle /\ DiscIdle /\ PkgIdle /\ DecIdle /\ BfdIdle /\
                  ZmqIdle /\ ConvIdle /\ BitmapIdle
IdleExceptPack == ValIdle /\ TxIdle /\ UniqIdle /\ P2PIdle /\ TermIdle /\
                  NetIdle /\ KeysIdle /\ DkgIdle /\ LoadIdle /\ UtxoIdle /\
                  SignIdle /\ DiscIdle /\ PkgIdle /\ DecIdle /\ BfdIdle /\
                  ZmqIdle /\ ConvIdle /\ BitmapIdle
IdleExceptP2P == ValIdle /\ TxIdle /\ UniqIdle /\ PackIdle /\ TermIdle /\
                 NetIdle /\ KeysIdle /\ DkgIdle /\ LoadIdle /\ UtxoIdle /\
                 SignIdle /\ DiscIdle /\ PkgIdle /\ DecIdle /\ BfdIdle /\
                 ZmqIdle /\ ConvIdle /\ BitmapIdle
IdleExceptTerm == ValIdle /\ TxIdle /\ UniqIdle /\ PackIdle /\ P2PIdle /\
                  NetIdle /\ KeysIdle /\ DkgIdle /\ LoadIdle /\ UtxoIdle /\
                  SignIdle /\ DiscIdle /\ PkgIdle /\ DecIdle /\ BfdIdle /\
                  ZmqIdle /\ ConvIdle /\ BitmapIdle
IdleExceptNet == ValIdle /\ TxIdle /\ UniqIdle /\ PackIdle /\ P2PIdle /\
                 TermIdle /\ KeysIdle /\ DkgIdle /\ LoadIdle /\ UtxoIdle /\
                 SignIdle /\ DiscIdle /\ PkgIdle /\ DecIdle /\ BfdIdle /\
                 ZmqIdle /\ ConvIdle /\ BitmapIdle
IdleExceptKeys == ValIdle /\ TxIdle /\ UniqIdle /\ PackIdle /\ P2PIdle /\
                  TermIdle /\ NetIdle /\ DkgIdle /\ LoadIdle /\ UtxoIdle /\
                  SignIdle /\ DiscIdle /\ PkgIdle /\ DecIdle /\ BfdIdle /\
                  ZmqIdle /\ ConvIdle /\ BitmapIdle
IdleExceptDkg == ValIdle /\ TxIdle /\ UniqIdle /\ PackIdle /\ P2PIdle /\
                 TermIdle /\ NetIdle /\ KeysIdle /\ LoadIdle /\ UtxoIdle /\
                 SignIdle /\ DiscIdle /\ PkgIdle /\ DecIdle /\ BfdIdle /\
                 ZmqIdle /\ ConvIdle /\ BitmapIdle
IdleExceptLoad == ValIdle /\ TxIdle /\ UniqIdle /\ PackIdle /\ P2PIdle /\
                  TermIdle /\ NetIdle /\ KeysIdle /\ DkgIdle /\ UtxoIdle /\
                  SignIdle /\ DiscIdle /\ PkgIdle /\ DecIdle /\ BfdIdle /\
                  ZmqIdle /\ ConvIdle /\ BitmapIdle
IdleExceptUtxo == ValIdle /\ TxIdle /\ UniqIdle /\ PackIdle /\ P2PIdle /\
                  TermIdle /\ NetIdle /\ KeysIdle /\ DkgIdle /\ LoadIdle /\
                  SignIdle /\ DiscIdle /\ PkgIdle /\ DecIdle /\ BfdIdle /\
                  ZmqIdle /\ ConvIdle /\ BitmapIdle
IdleExceptSign == ValIdle /\ TxIdle /\ UniqIdle /\ PackIdle /\ P2PIdle /\
                  TermIdle /\ NetIdle /\ KeysIdle /\ DkgIdle /\ LoadIdle /\
                  UtxoIdle /\ DiscIdle /\ PkgIdle /\ DecIdle /\ BfdIdle /\
                  ZmqIdle /\ ConvIdle /\ BitmapIdle
IdleExceptDisc == ValIdle /\ TxIdle /\ UniqIdle /\ PackIdle /\ P2PIdle /\
                  TermIdle /\ NetIdle /\ KeysIdle /\ DkgIdle /\ LoadIdle /\
                  UtxoIdle /\ SignIdle /\ PkgIdle /\ DecIdle /\ BfdIdle /\
                  ZmqIdle /\ ConvIdle /\ BitmapIdle
IdleExceptPkg == ValIdle /\ TxIdle /\ UniqIdle /\ PackIdle /\ P2PIdle /\
                 TermIdle /\ NetIdle /\ KeysIdle /\ DkgIdle /\ LoadIdle /\
                 UtxoIdle /\ SignIdle /\ DiscIdle /\ DecIdle /\ BfdIdle /\
                 ZmqIdle /\ ConvIdle /\ BitmapIdle
IdleExceptDec == ValIdle /\ TxIdle /\ UniqIdle /\ PackIdle /\ P2PIdle /\
                 TermIdle /\ NetIdle /\ KeysIdle /\ DkgIdle /\ LoadIdle /\
                 UtxoIdle /\ SignIdle /\ DiscIdle /\ PkgIdle /\ BfdIdle /\
                 ZmqIdle /\ ConvIdle /\ BitmapIdle
IdleExceptBfd == ValIdle /\ TxIdle /\ UniqIdle /\ PackIdle /\ P2PIdle /\
                 TermIdle /\ NetIdle /\ KeysIdle /\ DkgIdle /\ LoadIdle /\
                 UtxoIdle /\ SignIdle /\ DiscIdle /\ PkgIdle /\ DecIdle /\
                 ZmqIdle /\ ConvIdle /\ BitmapIdle
IdleExceptZmq == ValIdle /\ TxIdle /\ UniqIdle /\ PackIdle /\ P2PIdle /\
                 TermIdle /\ NetIdle /\ KeysIdle /\ DkgIdle /\ LoadIdle /\
                 UtxoIdle /\ SignIdle /\ DiscIdle /\ PkgIdle /\ DecIdle /\
                 BfdIdle /\ ConvIdle /\ BitmapIdle
IdleExceptConv == ValIdle /\ TxIdle /\ UniqIdle /\ PackIdle /\ P2PIdle /\
                  TermIdle /\ NetIdle /\ KeysIdle /\ DkgIdle /\ LoadIdle /\
                  UtxoIdle /\ SignIdle /\ DiscIdle /\ PkgIdle /\ DecIdle /\
                  BfdIdle /\ ZmqIdle /\ BitmapIdle
IdleExceptBitmap == ValIdle /\ TxIdle /\ UniqIdle /\ PackIdle /\ P2PIdle /\
                    TermIdle /\ NetIdle /\ KeysIdle /\ DkgIdle /\ LoadIdle /\
                    UtxoIdle /\ SignIdle /\ DiscIdle /\ PkgIdle /\ DecIdle /\
                    BfdIdle /\ ZmqIdle /\ ConvIdle

\* mapping.report.validate(mapping.chain_tip_height, &tx, TX_FEE)
Validate ==
    /\ validation_result = "pending"
    /\ validation_result' = validate(report, validate_args.chain_tip_height,
                                     validate_args.tx, validate_args.tx_fee)
    /\ UNCHANGED <<report, validate_args, exceptVal>>

\* BitcoinTxContext::construct_tx_sighashes for one transaction of the
\* package: `deps` and `wds` are what the store returns for the requested
\* deposits and withdrawals, `fee` the fee of the constructed transaction.
ConstructTxSighashes(deps, wds, fee, height) ==
    /\ construct_result = "pending"
    /\ IF \E i \in DOMAIN deps : ~deps[i].some
       THEN construct_result' = "Err(Deposit(Unknown))" /\ UNCHANGED vd
       ELSE IF \E i \in DOMAIN wds : ~wds[i].some
       THEN construct_result' = "Err(Withdrawal(Unknown))" /\ UNCHANGED vd
       ELSE LET deposits    == SortDeposits([i \in DOMAIN deps |-> deps[i].report])
                withdrawals == SortWithdrawals([i \in DOMAIN wds |-> wds[i].report])
                tx == create_transaction(deposits, withdrawals, SignerOutPoint)
            IN  /\ vd' = [ built |-> TRUE,
                           signer_sighash |-> SignatureHash(SignerOutPoint, "signers_input"),
                           deposit_sighashes |->
                               [i \in DOMAIN deposits |->
                                   SignatureHash(deposits[i].outpoint, "deposit")],
                           reports |-> [deposits |-> deposits, withdrawals |-> withdrawals],
                           tx |-> tx,
                           tx_fee |-> fee,
                           chain_tip_height |-> height ]
                /\ construct_result' = "Ok"
    /\ UNCHANGED <<valid_tx, input_rows, withdrawal_rows, exceptTx>>

IsValidTx ==
    /\ vd.built
    /\ ~valid_tx.done
    /\ valid_tx' = [done |-> TRUE, value |-> is_valid_tx(vd)]
    /\ UNCHANGED <<vd, input_rows, withdrawal_rows, construct_result, exceptTx>>

ToInputRows ==
    /\ vd.built
    /\ ~input_rows.done
    /\ input_rows' = [done |-> TRUE, rows |-> to_input_rows(vd)]
    /\ UNCHANGED <<vd, valid_tx, withdrawal_rows, construct_result, exceptTx>>

ToWithdrawalRows ==
    /\ vd.built
    /\ ~withdrawal_rows.done
    /\ withdrawal_rows' = [done |-> TRUE, rows |-> to_withdrawal_rows(vd)]
    /\ UNCHANGED <<vd, valid_tx, input_rows, construct_result, exceptTx>>

PreValidation ==
    /\ pre_validation_result = "pending"
    /\ pre_validation_result' = pre_validation(request_packages)
    /\ UNCHANGED <<request_packages, exceptUniq>>

(***************************************************************************)
(* Specifications.                                                         *)
(***************************************************************************)
\* Deposit validation as a function of the report and the arguments.
InitValidate ==
    /\ report \in DepositReports
    /\ validate_args \in ValidateArgs
    /\ validation_result = "pending"
    /\ IdleExceptVal

NextValidate == Validate

SpecValidate == InitValidate /\ [][NextValidate]_vars

\* Validation data of one transaction and the rows derived from it.
InitTx == TxIdle /\ IdleExceptTx

NextTx ==
    \/ \E deps \in SeqsUpTo(Options(TxDepositReports), MaxDeposits),
          wds \in SeqsUpTo(Options(TxWithdrawalReports), MaxWithdrawals) :
            ConstructTxSighashes(deps, wds, 10000, 2)
    \/ IsValidTx
    \/ ToInputRows
    \/ ToWithdrawalRows

SpecTx == InitTx /\ [][NextTx]_vars

\* The uniqueness precheck over a package.
InitUnique ==
    /\ request_packages \in SeqsUpTo(TxRequestIds, MaxTxs)
    /\ pre_validation_result = "pending"
    /\ IdleExceptUniq

NextUnique == PreValidation

SpecUnique == InitUnique /\ [][NextUnique]_vars

\* compute_optimal_packages2, up to the creation of the packager.
PkSort ==
    /\ pk_pc = "start"
    /\ item_vec' = SortByVotesDesc(pk_items)
    /\ packager' = NewPackager
    /\ pk_pc' = "insert"
    /\ UNCHANGED <<pk_items, pk_limits, pk_result, exceptPack>>

\* One turn of the loop of compute_optimal_packages2: insert_item.  An
\* overflow of the bag's u16 mass panics in a build with overflow checks and
\* wraps in one without.
PkInsertItem ==
    /\ pk_pc = "insert"
    /\ item_vec # <<>>
    /\ \/ /\ packager' = insert_item(packager, pk_limits, Head(item_vec))
          /\ item_vec' = Tail(item_vec)
          /\ pk_pc' = "insert"
       \/ /\ mass_overflows(packager, pk_limits, Head(item_vec))
          /\ pk_pc' = "panicked"
          /\ UNCHANGED <<packager, item_vec>>
    /\ UNCHANGED <<pk_items, pk_limits, pk_result, exceptPack>>

\* The bags are returned, each as the list of its items.
PkReturn ==
    /\ pk_pc = "insert"
    /\ item_vec = <<>>
    /\ pk_result' = [k \in DOMAIN packager.bags |-> packager.bags[k].items]
    /\ pk_pc' = "done"
    /\ UNCHANGED <<pk_items, pk_limits, item_vec, packager, exceptPack>>

\* The vote-aware packager over every list of items and every limit.
InitPack ==
    /\ pk_items \in {WithIds(s) : s \in SeqsUpTo(ItemValues, MaxItems)}
    /\ pk_limits \in [max_votes_against : 0..VoteBits, max_mass : SampleMaxMass]
    /\ item_vec = <<>>
    /\ packager = NewPackager
    /\ pk_pc = "start"
    /\ pk_result = <<>>
    /\ IdleExceptPack

NextPack == PkSort \/ PkInsertItem \/ PkReturn

SpecPack == InitPack /\ [][NextPack]_vars

\* The application sends Command(P2PPublish(msg)) on the signal bus.
SendP2PPublish ==
    /\ published < MaxPublish
    /\ published' = published + 1
    /\ signal_rx' = bus_send(signal_rx, P2PPublish(published + 1))
    /\ outcomes' = Append(outcomes, 0)
    /\ UNCHANGED <<outbox, connections, swarm_next, event, delivered, exceptP2P>>

\* One turn of poll_outbound: signal_rx.recv() returns Err(Lagged) to a
\* receiver that lost values, otherwise the oldest value; anything that is
\* not a P2PPublish command is skipped.
PollOutbound ==
    /\ signal_rx.lagged \/ signal_rx.queue # <<>>
    /\ IF signal_rx.lagged
       THEN /\ signal_rx' = [signal_rx EXCEPT !.lagged = FALSE]
            /\ UNCHANGED outbox
       ELSE /\ signal_rx' = [signal_rx EXCEPT !.queue = Tail(@)]
            /\ outbox' = IF Head(signal_rx.queue).kind = "P2PPublish"
                         THEN Append(outbox, Head(signal_rx.queue).id)
                         ELSE outbox
    /\ UNCHANGED <<connections, swarm_next, event, published, outcomes, delivered,
                   exceptP2P>>

\* The network makes the swarm produce an event; a connection is open from
\* the moment the swarm reports it established.
SwarmEvent(ev) ==
    /\ swarm_next = NoEvent
    /\ swarm_next' = ev
    /\ connections' =
          CASE ev.kind = "ConnectionEstablished" -> connections \cup {ev.peer_id}
            [] ev.kind = "ConnectionClosed" -> connections \ {ev.peer_id}
            [] OTHER -> connections
    /\ UNCHANGED <<signal_rx, outbox, event, published, outcomes, delivered, exceptP2P>>

\* One turn of poll_swarm: the event of the swarm, if any, is handled, and
\* unless the turn ended with `continue` the outbox is drained and published.
PollSwarm(results) ==
    LET ev == swarm_next
        deliver == ev.kind = "Message" /\ handle_gossipsub_event(ev)
        skip == ev.kind = "ConnectionEstablished" /\ ~is_allowed_peer(ev.peer_id)
        rx1 == IF deliver THEN bus_send(signal_rx, MessageReceived(ev.message))
               ELSE signal_rx
        drained == [i \in DOMAIN outbox |-> publish_signal(outbox[i], results[i])]
    IN  /\ DOMAIN results = DOMAIN outbox
        /\ event' = ev
        /\ swarm_next' = NoEvent
        /\ connections' = IF ev.kind = "ConnectionEstablished"
                          THEN connection_established(connections, ev.peer_id)
                          ELSE connections
        /\ delivered' = IF deliver THEN ev ELSE delivered
        /\ IF skip
           THEN /\ signal_rx' = rx1
                /\ UNCHANGED <<outbox, outcomes>>
           ELSE /\ signal_rx' = bus_send_all(rx1, drained)
                /\ outbox' = <<>>
                /\ outcomes' = [id \in DOMAIN outcomes |->
                                  outcomes[id]
                                  + Cardinality({i \in DOMAIN outbox : outbox[i] = id})]
        /\ UNCHANGED <<published, exceptP2P>>

InitP2P == P2PIdle /\ IdleExceptP2P

NextP2P ==
    \/ SendP2PPublish
    \/ PollOutbound
    \/ \E ev \in SwarmEvents : SwarmEvent(ev)
    \/ \E results \in SeqsUpTo(PublishResults, MaxPublish) : PollSwarm(results)

SpecP2P == InitP2P /\ [][NextP2P]_vars

\* Context::get_termination_handle
GetTerminationHandle(t) ==
    /\ tasks[t].pc = "start"
    /\ tasks' = [tasks EXCEPT ![t] = [pc |-> "handle", seen |-> subscribe(term_tx)]]
    /\ UNCHANGED <<term_tx, signal_receivers, signal_log, exceptTerm>>

\* TerminationHandle::signal_shutdown, by a task that holds a handle.
SignalShutdown(t) ==
    /\ tasks[t].pc = "handle"
    /\ term_tx' = signal_shutdown(term_tx)
    /\ UNCHANGED <<tasks, signal_receivers, signal_log, exceptTerm>>

\* TerminationHandle::wait_for_shutdown is called and awaits changed().
WaitForShutdown(t) ==
    /\ tasks[t].pc = "handle"
    /\ tasks' = [tasks EXCEPT ![t].pc = "waiting"]
    /\ UNCHANGED <<term_tx, signal_receivers, signal_log, exceptTerm>>

\* changed() completes; borrow_and_update marks the value seen, and the loop
\* of wait_for_shutdown ends when the value is true.
Changed(t) ==
    /\ tasks[t].pc = "waiting"
    /\ changed(term_tx, tasks[t].seen)
    /\ tasks' = [tasks EXCEPT ![t] =
                    [pc |-> IF term_tx.value THEN "returned" ELSE "waiting",
                     seen |-> term_tx.version]]
    /\ UNCHANGED <<term_tx, signal_receivers, signal_log, exceptTerm>>

InitTerm ==
    /\ term_tx = NewTermChannel
    /\ tasks = [t \in Tasks |-> [pc |-> "start", seen |-> 0]]
    /\ signal_receivers = 0
    /\ signal_log = <<>>
    /\ IdleExceptTerm

NextTerm ==
    \E t \in Tasks :
        \/ GetTerminationHandle(t)
        \/ SignalShutdown(t)
        \/ WaitForShutdown(t)
        \/ Changed(t)

\* The runtime polls a task whose changed() is ready.
SpecTerm ==
    InitTerm /\ [][NextTerm]_vars /\ \A t \in Tasks : WF_vars(Changed(t))

\* Context::get_signal_receiver: signal_tx.subscribe().
GetSignalReceiver ==
    /\ signal_receivers < MaxTasks
    /\ signal_receivers' = signal_receivers + 1
    /\ UNCHANGED <<term_tx, tasks, signal_log, exceptTerm>>

\* A receiver of the signalling channel is dropped.
DropSignalReceiver ==
    /\ signal_receivers > 0
    /\ signal_receivers' = signal_receivers - 1
    /\ UNCHANGED <<term_tx, tasks, signal_log, exceptTerm>>

\* Context::signal
Signal ==
    /\ Len(signal_log) < MaxSignals
    /\ LET r == SignerContext_signal(term_tx, signal_receivers)
       IN  /\ term_tx' = r.term_tx
           /\ signal_log' = Append(signal_log, r.result)
    /\ UNCHANGED <<tasks, signal_receivers, exceptTerm>>

NextSignal ==
    \/ GetSignalReceiver
    \/ DropSignalReceiver
    \/ Signal
    \/ \E t \in Tasks : GetTerminationHandle(t) \/ SignalShutdown(t)

SpecSignal == InitTerm /\ [][NextSignal]_vars

\* MessageTransfer::broadcast by an instance of signer s: InnerSignerNetwork::send.
Broadcast(s) ==
    /\ Len(wan) < MaxMsgs
    /\ sent' = [sent EXCEPT ![s] = dedup_buffer(@, Len(wan) + 1)]
    /\ wan' = Append(wan, NetMsg(s, Len(wan) + 1))
    /\ UNCHANGED <<forwarder, signer_tx, instance_rx, exceptNet>>

\* One turn of the forwarding task of signer s.  rx.recv().await.unwrap()
\* panics on Lagged, and the task is gone.
Forward(s) ==
    /\ forwarder[s].alive
    /\ forwarder[s].pos < Len(wan)
    /\ IF recv_lagged(wan, forwarder[s].pos, WanCapacity)
       THEN /\ forwarder' = [forwarder EXCEPT ![s].alive = FALSE]
            /\ UNCHANGED signer_tx
       ELSE LET msg == wan[forwarder[s].pos + 1]
            IN  /\ forwarder' = [forwarder EXCEPT ![s].pos = @ + 1]
                /\ signer_tx' = IF contains(sent[s], msg.id)
                                THEN signer_tx
                                ELSE [signer_tx EXCEPT ![s] = Append(@, msg)]
    /\ UNCHANGED <<wan, sent, instance_rx, exceptNet>>

\* MessageTransfer::receive by instance i of signer s, when instance_rx.recv()
\* is ready: a Lagged error moves the receiver to the oldest value kept and
\* the loop goes on, a value is returned.
Receive(s, i) ==
    /\ instance_rx[s][i].pos < Len(signer_tx[s])
    /\ instance_rx' =
          IF recv_lagged(signer_tx[s], instance_rx[s][i].pos, SignerCapacity)
          THEN [instance_rx EXCEPT ![s][i].pos = Len(signer_tx[s]) - SignerCapacity]
          ELSE [instance_rx EXCEPT ![s][i] =
                   [pos |-> @.pos + 1, msg |-> signer_tx[s][@.pos + 1]]]
    /\ UNCHANGED <<wan, sent, forwarder, signer_tx, exceptNet>>

InitNet == NetIdle /\ IdleExceptNet

NextNet ==
    \E s \in Signers :
        \/ Broadcast(s)
        \/ Forward(s)
        \/ \E i \in Instances : Receive(s, i)

SpecNet == InitNet /\ [][NextNet]_vars

\* The runtime runs the forwarding tasks and the instances that are receiving.
SpecNetFair ==
    /\ SpecNet
    /\ \A s \in Signers :
          WF_vars(Forward(s)) /\ \A i \in Instances : WF_vars(Receive(s, i))

\* DbWrite::write_encrypted_dkg_shares
WriteEncryptedDkgShares(row) ==
    /\ Len(dkg_shares) < MaxShares
    /\ dkg_shares' = Append(dkg_shares, row)
    /\ key_lookup' = [done |-> FALSE, value |-> NoRow]
    /\ UNCHANGED <<rotate_keys, exceptKeys>>

\* DbWrite::write_rotate_keys_transaction, in a block at the Stacks tip.
WriteRotateKeysTransaction(row) ==
    /\ Len(rotate_keys) < MaxRotations
    /\ rotate_keys' = Append(rotate_keys, row)
    /\ key_lookup' = [done |-> FALSE, value |-> NoRow]
    /\ UNCHANGED <<dkg_shares, exceptKeys>>

\* coord.get_signer_set_and_aggregate_key(&chain_tip)
GetSignerSetAndAggregateKey ==
    /\ key_lookup' = [done |-> TRUE,
                      value |-> get_signer_set_and_aggregate_key(dkg_shares, rotate_keys)]
    /\ UNCHANGED <<dkg_shares, rotate_keys, exceptKeys>>

InitKeys == KeysIdle /\ IdleExceptKeys

NextKeys ==
    \/ \E row \in KeyRows : WriteEncryptedDkgShares(row)
    \/ \E row \in RotateKeysRows : WriteRotateKeysTransaction(row)
    \/ GetSignerSetAndAggregateKey

SpecKeys == InitKeys /\ [][NextKeys]_vars

\* The coordinator's tenure starts with no DKG shares stored: it broadcasts
\* DkgBegin and waits for the public shares.
CoordStartDkg ==
    /\ dkg_coord.state = "Idle" /\ ~dkg_coord.error
    /\ dkg_store[1] = {}
    /\ DkgMessages("DkgBegin") = {}
    /\ dkg_coord' = [dkg_coord EXCEPT !.state = "DkgPublicGather"]
    /\ dkg_net' = dkg_net \cup {[kind |-> "DkgBegin", from |-> 1, share |-> 0]}
    /\ UNCHANGED <<dkg_party, dkg_store, exceptDkg>>

\* The coordinator, in a gather state, processes the message of a signer; with
\* dkg_threshold messages gathered it moves on, and at the end of the last
\* gather state it holds the aggregate key of the public shares it gathered.
CoordGather(i) ==
    LET state == dkg_coord.state
        gathered == dkg_coord.gathered \cup {i}
        next == NextGather(state)
    IN  /\ Gathers(state) # "None"
        /\ i \in DkgSenders(Gathers(state)) \ dkg_coord.gathered
        /\ IF Cardinality(gathered) >= dkg_threshold(NumSigners)
           THEN /\ dkg_coord' =
                      [state |-> next.state, gathered |-> {}, error |-> FALSE,
                       aggregate_key |->
                          IF state = "DkgPublicGather"
                          THEN compute_group_key({msg \in DkgMessages("DkgPublicShares") :
                                             msg.from \in gathered})
                          ELSE dkg_coord.aggregate_key]
                /\ dkg_net' = IF next.kind = "None" THEN dkg_net
                              ELSE dkg_net \cup {[kind |-> next.kind, from |-> 1,
                                                  share |-> 0]}
           ELSE /\ dkg_coord' = [dkg_coord EXCEPT !.gathered = gathered]
                /\ UNCHANGED dkg_net
        /\ UNCHANGED <<dkg_party, dkg_store, exceptDkg>>

\* A gather state lasts longer than dkg_max_duration: the round is aborted.
CoordTimeout ==
    /\ Gathers(dkg_coord.state) # "None"
    /\ dkg_coord' = [state |-> "Idle", gathered |-> {}, aggregate_key |-> 0,
                     error |-> TRUE]
    /\ UNCHANGED <<dkg_party, dkg_net, dkg_store, exceptDkg>>

\* A signer answers DkgBegin with its public shares.
PartyPublicShares(i, share) ==
    /\ dkg_party[i] = "Idle"
    /\ DkgMessages("DkgBegin") # {}
    /\ dkg_party' = [dkg_party EXCEPT ![i] = "DkgPublicShares"]
    /\ dkg_net' = dkg_net \cup {[kind |-> "DkgPublicShares", from |-> i, share |-> share]}
    /\ UNCHANGED <<dkg_coord, dkg_store, exceptDkg>>

\* A signer answers DkgPrivateBegin with its private shares.
PartyPrivateShares(i) ==
    /\ dkg_party[i] = "DkgPublicShares"
    /\ DkgMessages("DkgPrivateBegin") # {}
    /\ dkg_party' = [dkg_party EXCEPT ![i] = "DkgPrivateShares"]
    /\ dkg_net' = dkg_net \cup {[kind |-> "DkgPrivateShares", from |-> i, share |-> 0]}
    /\ UNCHANGED <<dkg_coord, dkg_store, exceptDkg>>

\* A signer answers DkgEndBegin: it computes the group key from the public
\* shares it has received, stores its encrypted shares for that key and
\* broadcasts DkgEnd.
PartyDkgEnd(i) ==
    /\ dkg_party[i] = "DkgPrivateShares"
    /\ DkgMessages("DkgEndBegin") # {}
    /\ dkg_party' = [dkg_party EXCEPT ![i] = "DkgEnd"]
    /\ dkg_store' = [dkg_store EXCEPT ![i] =
                        @ \cup {compute_group_key(DkgMessages("DkgPublicShares"))}]
    /\ dkg_net' = dkg_net \cup {[kind |-> "DkgEnd", from |-> i, share |-> 0]}
    /\ UNCHANGED <<dkg_coord, exceptDkg>>

InitDkg == DkgIdle /\ IdleExceptDkg

NextDkg ==
    \/ CoordStartDkg
    \/ CoordTimeout
    \/ \E i \in DkgSigners :
          \/ CoordGather(i)
          \/ \E share \in Contributions : PartyPublicShares(i, share)
          \/ PartyPrivateShares(i)
          \/ PartyDkgEnd(i)

SpecDkg == InitDkg /\ [][NextDkg]_vars

\* A signer writes the shares of a completed DKG round.
WriteDkgShares(group_key, private_key, public_shares) ==
    /\ x(group_key) \notin DOMAIN shares_rows
    /\ shares_rows' =
          [k \in DOMAIN shares_rows \cup {x(group_key)} |->
              IF k = x(group_key)
              THEN EncryptedDkgShares(group_key, private_key, public_shares)
              ELSE shares_rows[k]]
    /\ loaded' = NotLoaded
    /\ UNCHANGED exceptLoad

SignerLoad(aggregate_key, signers, threshold, signer_private_key) ==
    /\ loaded' = [kind |-> "signer", aggregate_key |-> aggregate_key,
                  result |-> SignerStateMachine_load(shares_rows, aggregate_key,
                                signers, threshold, signer_private_key)]
    /\ UNCHANGED <<shares_rows, exceptLoad>>

CoordinatorLoad(aggregate_key, signers, debug_assertions) ==
    /\ loaded' = [kind |-> "coordinator", aggregate_key |-> aggregate_key,
                  result |-> CoordinatorStateMachine_load(shares_rows, aggregate_key,
                                signers, debug_assertions)]
    /\ UNCHANGED <<shares_rows, exceptLoad>>

InitLoad == LoadIdle /\ IdleExceptLoad

NextLoad ==
    \/ \E group_key \in Points, private_key \in PrivateKeys, public_shares \in {2, 3} :
          WriteDkgShares(group_key, private_key, public_shares)
    \/ \E aggregate_key \in Points, signers \in SignerSets :
          \/ \E threshold \in Thresholds, signer_private_key \in PrivateKeys :
                SignerLoad(aggregate_key, signers, threshold, signer_private_key)
          \/ \E debug_assertions \in BOOLEAN :
                CoordinatorLoad(aggregate_key, signers, debug_assertions)

SpecLoad == InitLoad /\ [][NextLoad]_vars

\* The block observer writes a bitcoin transaction.
WriteBitcoinTransaction(tx) ==
    /\ Len(bitcoin_txs) < MaxBitcoinTxs
    /\ bitcoin_txs' = Append(bitcoin_txs, tx)
    /\ utxo_lookup' = NoLookup
    /\ UNCHANGED exceptUtxo

GetSignerUtxo(chain_tip, aggregate_key) ==
    /\ utxo_lookup' = [done |-> TRUE, chain_tip |-> chain_tip,
                       aggregate_key |-> aggregate_key,
                       result |-> get_signer_utxo(bitcoin_txs, chain_tip, aggregate_key)]
    /\ UNCHANGED <<bitcoin_txs, exceptUtxo>>

InitUtxo == UtxoIdle /\ IdleExceptUtxo

NextUtxo ==
    \/ \E tx \in NewBitcoinTxs(bitcoin_txs) : WriteBitcoinTransaction(tx)
    \/ \E chain_tip \in ChainTips, aggregate_key \in AggregateKeys :
          GetSignerUtxo(chain_tip, aggregate_key)

SpecUtxo == InitUtxo /\ [][NextUtxo]_vars

\* The signer stores a deposit request that it accepts and can sign for.
WriteDepositRequest(outpoint) ==
    /\ outpoint \notin sign_store
    /\ sign_store' = sign_store \cup {outpoint}
    /\ UNCHANGED <<sign_requests, sign_replies, exceptSign>>

\* The coordinator broadcasts a BitcoinTransactionSignRequest.
BroadcastSignRequest(tx) ==
    /\ Len(sign_requests) < MaxSignRequests
    /\ sign_requests' = Append(sign_requests, tx)
    /\ UNCHANGED <<sign_store, sign_replies, exceptSign>>

\* The signer handles the next sign request and replies or stays silent.
HandleSignRequest(ack) ==
    /\ Len(sign_replies) < Len(sign_requests)
    /\ LET tx == sign_requests[Len(sign_replies) + 1]
       IN  /\ ack \in handle_bitcoin_transaction_sign_request(tx, sign_store)
           /\ sign_replies' =
                 Append(sign_replies,
                        [tx |-> tx, ack |-> ack,
                         valid |-> is_valid_sign_request(tx, sign_store)])
    /\ UNCHANGED <<sign_store, sign_requests, exceptSign>>

InitSign == SignIdle /\ IdleExceptSign

NextSign ==
    \/ \E outpoint \in StoredOutPoints : WriteDepositRequest(outpoint)
    \/ \E tx \in RequestedTxs : BroadcastSignRequest(tx)
    \/ \E ack \in BOOLEAN : HandleSignRequest(ack)

SpecSign == InitSign /\ [][NextSign]_vars

\* The swarm yields an mDNS or an identify event and the loop handles it.
HandleDiscoveryEvent(ev) ==
    /\ Len(discovery_log) < MaxDiscoveryEvents
    /\ explicit_peers' = handle_mdns_event(explicit_peers, enable_mdns, ev)
    /\ external_addresses' = handle_identify_event(external_addresses, ev)
    /\ discovery_log' = Append(discovery_log, ev)
    /\ UNCHANGED <<enable_mdns, exceptDisc>>

InitDisc ==
    /\ enable_mdns \in BOOLEAN
    /\ explicit_peers = {}
    /\ external_addresses = {}
    /\ discovery_log = << >>
    /\ IdleExceptDisc

NextDisc == \E ev \in DiscoveryEvents : HandleDiscoveryEvent(ev)

SpecDisc == InitDisc /\ [][NextDisc]_vars

\* BitcoinTxContext::construct_package_sighashes
ConstructPackageSighashes ==
    /\ ~package_result.done
    /\ package_result' =
          [done |-> TRUE,
           result |-> construct_package_sighashes(tx_context.request_packages,
                                                  tx_context.signer_state, <<>>)]
    /\ UNCHANGED <<tx_context, exceptPkg>>

InitPkg ==
    /\ tx_context \in BitcoinTxContexts
    /\ package_result = [done |-> FALSE]
    /\ IdleExceptPkg

NextPkg == ConstructPackageSighashes

SpecPkg == InitPkg /\ [][NextPkg]_vars

\* The block observer stores a deposit request.
StoreDepositRequest(outpoint) ==
    /\ outpoint \notin deposit_requests
    /\ deposit_requests' = deposit_requests \cup {outpoint}
    /\ UNCHANGED <<decider_in_signing_set, deposit_signers, decider, decisions_sent,
                   exceptDec>>

\* handle_pending_deposit_request starts on a pending request: the signing
\* set gives can_sign, the blocklist client gives can_accept.
DeciderDecide(outpoint, can_accept) ==
    /\ decider.pc = 0
    /\ outpoint \in get_pending_deposit_requests(deposit_requests, deposit_signers)
    /\ decider' = [pc |-> 2,
                   decision |-> DepositSigner(outpoint, can_accept, decider_in_signing_set)]
    /\ UNCHANGED <<decider_in_signing_set, deposit_requests, deposit_signers,
                   decisions_sent, exceptDec>>

\* The blocklist client fails: the handler returns the error.
DeciderBlocklistError(outpoint) ==
    /\ decider.pc = 0
    /\ outpoint \in get_pending_deposit_requests(deposit_requests, deposit_signers)
    /\ decider' = DeciderWaiting
    /\ UNCHANGED <<decider_in_signing_set, deposit_requests, deposit_signers,
                   decisions_sent, exceptDec>>

\* db.write_deposit_signer_decision(&decision)
DeciderWrite ==
    /\ DeciderStep = "write"
    /\ deposit_signers' = Append(deposit_signers, decider.decision)
    /\ decider' = DeciderAdvance
    /\ UNCHANGED <<decider_in_signing_set, deposit_requests, decisions_sent, exceptDec>>

\* The decision is broadcast to the other signers.
DeciderSend ==
    /\ DeciderStep = "send"
    /\ decisions_sent' = Append(decisions_sent, decider.decision)
    /\ decider' = DeciderAdvance
    /\ UNCHANGED <<decider_in_signing_set, deposit_requests, deposit_signers, exceptDec>>

\* The broadcast fails (no live network): the handler returns the error.
DeciderSendError ==
    /\ DeciderStep = "send"
    /\ decider' = DeciderWaiting
    /\ UNCHANGED <<decider_in_signing_set, deposit_requests, deposit_signers,
                   decisions_sent, exceptDec>>

InitDec ==
    /\ decider_in_signing_set \in BOOLEAN
    /\ deposit_requests = {}
    /\ deposit_signers = <<>>
    /\ decider = DeciderWaiting
    /\ decisions_sent = <<>>
    /\ IdleExceptDec

NextDec ==
    \/ \E outpoint \in DeciderOutPoints : StoreDepositRequest(outpoint)
    \/ \E outpoint \in DeciderOutPoints, can_accept \in BOOLEAN :
          DeciderDecide(outpoint, can_accept)
    \/ \E outpoint \in DeciderOutPoints : DeciderBlocklistError(outpoint)
    \/ DeciderWrite
    \/ DeciderSend
    \/ DeciderSendError

SpecDec == InitDec /\ [][NextDec]_vars

\* compute_optimal_packages(items, capacity), collected.
ComputeOptimalPackages ==
    /\ ~packages_result.done
    /\ packages_result' =
          [done |-> TRUE,
           bags |-> compute_optimal_packages(WeightedItems(weighted_items), bag_capacity)]
    /\ UNCHANGED <<weighted_items, bag_capacity, exceptBfd>>

InitBfd ==
    /\ weighted_items \in SeqsUpTo(ItemWeights, MaxWeightedItems)
    /\ bag_capacity \in BagCapacities
    /\ packages_result = [done |-> FALSE, bags |-> <<>>]
    /\ IdleExceptBfd

NextBfd == ComputeOptimalPackages

SpecBfd == InitBfd /\ [][NextBfd]_vars

\* bitcoin-core publishes a message and the socket receives it.
ZmqPublish(message) ==
    /\ Len(zmq_socket) + Len(message_stream) < MaxZmqMessages
    /\ zmq_socket' = Append(zmq_socket, message)
    /\ UNCHANGED <<message_stream, block_stream, exceptZmq>>

\* The block stream is polled: the unfold of new_from_socket takes a message
\* from the socket and parses it, and to_block_stream filters the item.
ZmqPollNext ==
    /\ zmq_socket # <<>>
    /\ LET item == parse_bitcoin_core_message(zmq_socket[1])
       IN  /\ message_stream' = Append(message_stream, item)
           /\ block_stream' = block_stream \o to_block_stream(item)
    /\ zmq_socket' = Tail(zmq_socket)
    /\ UNCHANGED exceptZmq

InitZmq ==
    /\ zmq_socket = <<>>
    /\ message_stream = <<>>
    /\ block_stream = <<>>
    /\ IdleExceptZmq

NextZmq ==
    \/ \E message \in ZmqMessages : ZmqPublish(message)
    \/ ZmqPollNext

SpecZmq == InitZmq /\ [][NextZmq]_vars

\* Uint256::from(bytes)
ConvertIntoUint256 ==
    /\ Len(conv_trail) < 2
    /\ LET from == IF conv_trail = <<>> THEN conv_input ELSE conv_trail[Len(conv_trail)]
       IN  /\ from.kind = "bytes"
           /\ conv_trail' = Append(conv_trail,
                  [kind |-> "Uint256", value |-> Uint256_from_bytes(from.value)])
    /\ UNCHANGED <<conv_input, exceptConv>>

\* <[u8; 32]>::from(number)
ConvertIntoBytes ==
    /\ Len(conv_trail) < 2
    /\ LET from == IF conv_trail = <<>> THEN conv_input ELSE conv_trail[Len(conv_trail)]
       IN  /\ from.kind = "Uint256"
           /\ conv_trail' = Append(conv_trail,
                  [kind |-> "bytes", value |-> bytes_from_Uint256(from.value)])
    /\ UNCHANGED <<conv_input, exceptConv>>

InitConv ==
    /\ conv_input \in [kind : {"bytes"}, value : ByteArrays]
                      \cup [kind : {"Uint256"}, value : Uint256s]
    /\ conv_trail = <<>>
    /\ IdleExceptConv

NextConv == ConvertIntoUint256 \/ ConvertIntoBytes

SpecConv == InitConv /\ [][NextConv]_vars

(***************************************************************************)
(* The signer bitmap on its way through the contract.                      *)
(***************************************************************************)
\* The signer builds the arguments of the contract call.
AsContractArgs ==
    /\ withdrawal_call # NoValue
    /\ contract_args = NoValue
    /\ contract_args' = as_contract_args(withdrawal_call)
    /\ UNCHANGED <<withdrawal_call, print_event, registry_event>>
    /\ UNCHANGED exceptBitmap

\* The contract call is confirmed and the registry prints its event.
ContractPrint ==
    /\ contract_args # NoValue
    /\ print_event = NoValue
    /\ print_event' = contract_print(contract_args)
    /\ UNCHANGED <<withdrawal_call, contract_args, registry_event>>
    /\ UNCHANGED exceptBitmap

\* RegistryEvent::try_new on a withdrawal-accept tuple.
TransformAccept ==
    /\ print_event # NoValue
    /\ print_event.topic = "withdrawal-accept"
    /\ registry_event = NoValue
    /\ registry_event' = withdrawal_accept(print_event)
    /\ UNCHANGED <<withdrawal_call, contract_args, print_event>>
    /\ UNCHANGED exceptBitmap

\* RegistryEvent::try_new on a withdrawal-reject tuple.
TransformReject ==
    /\ print_event # NoValue
    /\ print_event.topic = "withdrawal-reject"
    /\ registry_event = NoValue
    /\ registry_event' = withdrawal_reject(print_event)
    /\ UNCHANGED <<withdrawal_call, contract_args, print_event>>
    /\ UNCHANGED exceptBitmap

InitBitmap ==
    /\ withdrawal_call \in WithdrawalCalls
    /\ contract_args = NoValue
    /\ print_event = NoValue
    /\ registry_event = NoValue
    /\ IdleExceptBitmap

NextBitmap == AsContractArgs \/ ContractPrint \/ TransformAccept \/ TransformReject

SpecBitmap == InitBitmap /\ [][NextBitmap]_vars

(***************************************************************************)
(* Properties of request validation.                                       *)
(***************************************************************************)
\* The result of validating the i-th deposit of the validation data.
DepositResult(i) ==
    validate(vd.reports.deposits[i], vd.chain_tip_height, vd.tx, vd.tx_fee)

\* A withdrawal output passes validation when its result is a success;
\* WithdrawalValidationResult has no such variant.
WithdrawalPasses(i) ==
    validate_withdrawal(vd.reports.withdrawals[i], vd.chain_tip_height, vd.tx, vd.tx_fee)
        \notin WithdrawalValidationResult

\* "Valid as a whole", as the specification words it.
ValidAsAWhole ==
    /\ \A i \in DOMAIN vd.reports.deposits : DepositResult(i) \in {"Ok", "CannotSignUtxo"}
    /\ \A i \in DOMAIN vd.reports.withdrawals : WithdrawalPasses(i)

\* C1: is_valid_tx is true if and only if every deposit input validates to
\* Ok or CannotSignUtxo and every withdrawal output passes withdrawal
\* validation; the rows carry the same verdict.
C1_IsValidTxIffAllRequestsPass ==
    /\ valid_tx.done => (valid_tx.value <=> ValidAsAWhole)
    /\ input_rows.done =>
          \A i \in DOMAIN input_rows.rows : input_rows.rows[i].is_valid_tx <=> ValidAsAWhole
    /\ withdrawal_rows.done =>
          \A i \in DOMAIN withdrawal_rows.rows :
              withdrawal_rows.rows[i].is_valid_tx <=> ValidAsAWhole

\* C1 witness: is_valid_tx returned true for a transaction with a deposit
\* this signer cannot sign for.
C1_Witness ==
    /\ valid_tx.done /\ valid_tx.value
    /\ \E i \in DOMAIN vd.reports.deposits : DepositResult(i) = "CannotSignUtxo"

\* C2: for every input row, will_sign holds if and only if the transaction
\* is valid as a whole and the row's own validation result is Ok; the first
\* row is the signers' input with result Ok, so it is signed exactly when the
\* transaction is valid; a CannotSignUtxo row is never signed.
C2_WillSignIffValidAndOk ==
    input_rows.done =>
        LET rows == input_rows.rows
        IN  /\ Len(rows) = 1 + Len(vd.reports.deposits)
            /\ rows[1].prevout_type = "signers_input"
            /\ rows[1].validation_result = "Ok"
            /\ rows[1].will_sign <=> ValidAsAWhole
            /\ \A i \in DOMAIN vd.reports.deposits :
                  rows[i + 1].validation_result = DepositResult(i)
            /\ \A i \in DOMAIN rows :
                  /\ rows[i].will_sign <=>
                        (ValidAsAWhole /\ rows[i].validation_result = "Ok")
                  /\ rows[i].validation_result = "CannotSignUtxo" => ~rows[i].will_sign

\* C2 witness: a deposit input with CannotSignUtxo is not signed while the
\* signers' input and another deposit input are.
C2_Witness ==
    /\ input_rows.done
    /\ \E i, j \in DOMAIN input_rows.rows :
          /\ i > 1 /\ j > 1
          /\ input_rows.rows[i].validation_result = "CannotSignUtxo"
          /\ ~input_rows.rows[i].will_sign
          /\ input_rows.rows[j].will_sign
          /\ input_rows.rows[1].will_sign

\* The five checks of deposit validation, each giving its failure or "pass".
StatusCheck ==
    IF report.status.kind = "Unconfirmed" THEN "TxNotOnBestChain"
    ELSE IF report.status.kind = "Spent" THEN "DepositUtxoSpent"
    ELSE "pass"

LockTimeCheck ==
    IF report.lock_time.kind = "Time" THEN "UnsupportedLockTime"
    ELSE IF SaturatingSub(validate_args.chain_tip_height, report.status.height)
              >= SaturatingSub(report.lock_time.value, DEPOSIT_LOCKTIME_BLOCK_BUFFER)
         THEN "LockTimeExpiry"
    ELSE "pass"

FeeCheck ==
    LET inTx == \E i \in DOMAIN validate_args.tx.input :
                    i > 1 /\ validate_args.tx.input[i].previous_output = report.outpoint
        assessed == assess_input_fee(validate_args.tx, report.outpoint, validate_args.tx_fee)
    IN  IF ~inTx THEN "Unknown"
        ELSE IF assessed.sat > Min(report.max_fee, report.amount) THEN "FeeTooHigh"
        ELSE "pass"

AcceptCheck ==
    CASE report.can_accept = "None" -> "NoVote"
      [] report.can_accept = "SomeFalse" -> "RejectedRequest"
      [] report.can_accept = "SomeTrue" -> "pass"

SignCheck ==
    CASE report.can_sign = "SomeFalse" -> "CannotSignUtxo"
      [] report.can_sign = "None" -> "NoVote"
      [] report.can_sign = "SomeTrue" -> "pass"

DepositChecks == <<StatusCheck, LockTimeCheck, FeeCheck, AcceptCheck, SignCheck>>

\* C3: deposit validation returns the outcome of the first failing check in
\* the order status, lock-time, assessed fee, acceptance vote, signing
\* authority, and Ok exactly when all five pass.
C3_FirstFailingCheck ==
    validation_result # "pending" =>
        LET failing == {i \in DOMAIN DepositChecks : DepositChecks[i] # "pass"}
        IN  IF failing = {} THEN validation_result = "Ok"
            ELSE /\ validation_result # "Ok"
                 /\ validation_result =
                      DepositChecks[CHOOSE i \in failing : \A j \in failing : i <= j]

\* C3 witness: the fee check fails and decides the outcome although the
\* votes that would fail later are missing.
C3_Witness ==
    /\ validation_result = "FeeTooHigh"
    /\ report.can_accept = "None"
    /\ report.can_sign = "SomeFalse"

\* Whether some request occurs at two places of the package.
HasDuplicate(packages) ==
    \/ \E t, u \in DOMAIN packages :
         \E i \in DOMAIN packages[t].deposits, j \in DOMAIN packages[u].deposits :
            <<t, i>> # <<u, j>> /\ packages[t].deposits[i] = packages[u].deposits[j]
    \/ \E t, u \in DOMAIN packages :
         \E i \in DOMAIN packages[t].withdrawals, j \in DOMAIN packages[u].withdrawals :
            <<t, i>> # <<u, j>> /\ packages[t].withdrawals[i] = packages[u].withdrawals[j]

\* C4: pre_validation returns DuplicateRequests if and only if some deposit
\* outpoint or some withdrawal id occurs more than once anywhere in the
\* package, and Ok otherwise.
C4_DuplicateRequestsIffRepeated ==
    pre_validation_result # "pending" =>
        /\ pre_validation_result \in {"Ok", "DuplicateRequests"}
        /\ pre_validation_result = "DuplicateRequests" <=> HasDuplicate(request_packages)

\* C4 witness: a package is rejected whose only repetition is across two
\* transactions, each of which is free of duplicates on its own.
C4_Witness ==
    /\ pre_validation_result = "DuplicateRequests"
    /\ \A t \in DOMAIN request_packages : ~HasDuplicate(<<request_packages[t]>>)

(***************************************************************************)
(* Properties of the vote-aware packager.                                  *)
(***************************************************************************)
RECURSIVE OrVotes(_)
OrVotes(bag) == IF bag = <<>> THEN 0 ELSE BitOr(bag[1].votes, OrVotes(Tail(bag)))

RECURSIVE SumMass(_)
SumMass(bag) == IF bag = <<>> THEN 0 ELSE bag[1].mass + SumMass(Tail(bag))

RECURSIVE SumVsize(_)
SumVsize(bag) == IF bag = <<>> THEN 0 ELSE bag[1].vsize + SumVsize(Tail(bag))

RECURSIVE SumVsizes(_)
SumVsizes(bags) == IF bags = <<>> THEN 0 ELSE SumVsize(bags[1]) + SumVsizes(Tail(bags))

\* C5: each bag returned by the vote-aware packager has an OR-ed vote bitmap
\* with at most max_votes_against bits set and a sum of item masses of at
\* most max_mass, and the vsize of all items over all bags is at most 95,000.
C5_BagsWithinLimits ==
    pk_pc = "done" =>
        /\ \A k \in DOMAIN pk_result :
              /\ count_ones(OrVotes(pk_result[k])) <= pk_limits.max_votes_against
              /\ SumMass(pk_result[k]) <= pk_limits.max_mass
        /\ SumVsizes(pk_result) <= 95000

\* The part of C5 about votes and vsize, which the packager keeps.
C5_VotesAndVsizeWithinLimits ==
    pk_pc = "done" =>
        /\ \A k \in DOMAIN pk_result :
              count_ones(OrVotes(pk_result[k])) <= pk_limits.max_votes_against
        /\ SumVsizes(pk_result) <= 95000

(***************************************************************************)
(* Properties of the libp2p event loop.                                    *)
(***************************************************************************)
\* C6: the event loop sends MessageReceived on the signal bus only for a
\* message whose sender is authorized, whose bytes decode and whose signature
\* has been verified.
C6_MessageReceivedOnlyIfVerified ==
    delivered # NoEvent =>
        /\ is_allowed_peer(delivered.peer_id)
        /\ delivered.message.decodes
        /\ delivered.message.signed

\* The part of C6 the event loop keeps: the peer the message came from is
\* of the signer set and the bytes decode.
C6_MessageReceivedOnlyIfAllowedAndDecoded ==
    delivered # NoEvent =>
        /\ is_allowed_peer(delivered.peer_id)
        /\ delivered.message.decodes

PublishPending(id) ==
    \/ \E i \in DOMAIN signal_rx.queue : signal_rx.queue[i] = P2PPublish(id)
    \/ \E i \in DOMAIN outbox : outbox[i] = id

\* C8: no P2PPublish command sent on the signal bus is dropped: it is waiting
\* in the channel or in the outbox, or exactly one PublishSuccess or
\* PublishFailure was sent for its message id, and never more than one.
C8_EveryPublishHasOneOutcome ==
    \A id \in 1..published :
        /\ outcomes[id] <= 1
        /\ outcomes[id] = 1 \/ PublishPending(id)

\* The part of C8 the event loop keeps: at most one outcome per command, and
\* none while the command is waiting.
C8_AtMostOneOutcome ==
    \A id \in 1..published :
        /\ outcomes[id] <= 1
        /\ outcomes[id] = 1 => ~PublishPending(id)

(***************************************************************************)
(* Properties of the termination handle.                                   *)
(***************************************************************************)
\* C9: once the termination latch is set, every task that is in
\* wait_for_shutdown eventually returns from it, whether its handle was
\* obtained and its wait started before or after the latch was set.
C9_WaitingTasksReturn ==
    \A t \in Tasks :
        (term_tx.value /\ tasks[t].pc = "waiting") ~> (tasks[t].pc = "returned")

\* The part of C9 the handle keeps: a task whose handle was obtained before
\* the latch was set returns from wait_for_shutdown.
C9_EarlyHandlesReturn ==
    \A t \in Tasks :
        (term_tx.value /\ tasks[t].pc = "waiting" /\ tasks[t].seen = 0)
            ~> (tasks[t].pc = "returned")

(***************************************************************************)
(* Properties of the in-memory network.                                    *)
(***************************************************************************)
\* C10: no instance of a signer network ever receives a message that an
\* instance of the same signer network broadcast.
C10_NeverReceivesOwnMessage ==
    \A s \in Signers : \A i \in Instances : instance_rx[s][i].msg.from # s


C12_EveryMessageDelivered ==
    \A s \in Signers : \A i \in Instances : \A n \in 1..MaxMsgs :
        (Len(wan) >= n /\ wan[n].from # s)
            ~> (Len(wan) >= n /\ instance_rx[s][i].msg = wan[n])

(***************************************************************************)
(* Properties of the coordinator's lookup of the signing set.              *)
(***************************************************************************)
\* C13: the coordinator takes the aggregate key and the signer set from the
\* latest rotate-keys transaction confirmed on the canonical chain when there
\* is one, otherwise from the most recent DKG shares, and the lookup fails
\* when there is neither.
C13_KeyFromRotationElseShares ==
    key_lookup.done =>
        LET canon == {k \in DOMAIN rotate_keys : rotate_keys[k].canonical}
            v == key_lookup.value
        IN  IF canon # {}
            THEN \E k \in canon :
                    /\ \A j \in canon : j <= k
                    /\ v.some
                    /\ v.aggregate_key = rotate_keys[k].aggregate_key
                    /\ v.signer_set = rotate_keys[k].signer_set
            ELSE IF dkg_shares # <<>>
            THEN /\ v.some
                 /\ v.aggregate_key = dkg_shares[Len(dkg_shares)].aggregate_key
                 /\ v.signer_set = dkg_shares[Len(dkg_shares)].signer_set
            ELSE ~v.some

\* The lookup fell back on the DKG shares although a rotate-keys transaction
\* is stored, since that transaction is not on the canonical chain.
C13_Witness ==
    /\ key_lookup.done
    /\ Len(rotate_keys) = 1 /\ ~rotate_keys[1].canonical
    /\ Len(dkg_shares) = 2
    /\ key_lookup.value = SomeRow(dkg_shares[2].aggregate_key, dkg_shares[2].signer_set)
    /\ rotate_keys[1].aggregate_key # dkg_shares[2].aggregate_key
    /\ dkg_shares[1].aggregate_key # dkg_shares[2].aggregate_key

(***************************************************************************)
(* Properties of a DKG round.                                              *)
(***************************************************************************)
\* The coordinator's DKG round has completed with an aggregate key.
DkgCompleted ==
    /\ dkg_coord.state = "Idle"
    /\ ~dkg_coord.error
    /\ DkgMessages("DkgEndBegin") # {}

\* C14: a coordinator that starts its tenure with no DKG shares stored runs
\* DKG, and once the round completes every signer of the signing set has
\* stored DKG shares for one and the same aggregate key, the key the
\* coordinator obtained.
C14_AllSignersStoreTheCoordinatorsKey ==
    /\ (dkg_coord.state # "Idle" \/ DkgCompleted) => DkgMessages("DkgBegin") # {}
    /\ DkgCompleted =>
          \A i \in DkgSigners : dkg_store[i] = {dkg_coord.aggregate_key}

C14_Witness ==
    /\ DkgCompleted
    /\ dkg_coord.aggregate_key = NumSigners + 1
    /\ \A i \in DkgSigners : dkg_store[i] = {NumSigners + 1}

(***************************************************************************)
(* Properties of loading state machines.                                   *)
(***************************************************************************)
\* C15: a load that yields a machine yields one in the Idle state whose
\* aggregate key is the requested key, and a load for a key without a row
\* fails with MissingDkgShares.
C15_LoadedMachineIsIdleWithRequestedKey ==
    loaded.kind # "None" =>
        /\ loaded.result.ok =>
              /\ loaded.result.state = "Idle"
              /\ loaded.result.aggregate_key = loaded.aggregate_key
        /\ ~get_encrypted_dkg_shares(shares_rows, x(loaded.aggregate_key)).some =>
              loaded.result = LoadErr("MissingDkgShares")

\* What the loads do guarantee: the machine is Idle, its key has the x
\* coordinate of the requested key, and a missing row is MissingDkgShares.
C15_LoadedMachineIsIdleWithKeyOfRow ==
    loaded.kind # "None" =>
        /\ loaded.result.ok =>
              /\ loaded.result.state = "Idle"
              /\ x(loaded.result.aggregate_key) = x(loaded.aggregate_key)
        /\ ~get_encrypted_dkg_shares(shares_rows, x(loaded.aggregate_key)).some =>
              loaded.result = LoadErr("MissingDkgShares")

(***************************************************************************)
(* Properties of the signer UTXO resolver.                                 *)
(***************************************************************************)
\* C16: for every chain tip and aggregate key the resolver returns at most
\* one outpoint, and an outpoint it returns is the first output of a
\* transaction of the canonical chain that ends at the tip, is unspent on
\* that chain and pays to signers_script_pubkey of the aggregate key.
C16_SignerUtxoIsCanonicalFirstUnspent ==
    (utxo_lookup.done /\ utxo_lookup.result.some) =>
        LET outpoint == utxo_lookup.result.outpoint
            chain_tip == utxo_lookup.chain_tip
        IN  /\ utxo_lookup.result.ok
            /\ outpoint.vout = 0
            /\ outpoint.txid \in DOMAIN bitcoin_txs
            /\ bitcoin_txs[outpoint.txid].block \in canonical_chain(chain_tip)
            /\ bitcoin_txs[outpoint.txid].script_pubkeys[0] =
                  signers_script_pubkey(utxo_lookup.aggregate_key)
            /\ \A i \in DOMAIN bitcoin_txs :
                  bitcoin_txs[i].block \in canonical_chain(chain_tip) =>
                      bitcoin_txs[i].prevout # outpoint

\* The resolver returns the later of two signer outputs of the canonical
\* chain, the earlier one spent by the later transaction.
C16_Witness ==
    /\ utxo_lookup.done /\ utxo_lookup.result.some
    /\ utxo_lookup.result.outpoint = UtxoOutPoint(2, 0)
    /\ Len(bitcoin_txs) = 2
    /\ bitcoin_txs[1].block = 1
    /\ bitcoin_txs[1].script_pubkeys[0] = signers_script_pubkey(utxo_lookup.aggregate_key)
    /\ bitcoin_txs[2].prevout = UtxoOutPoint(1, 0)

(***************************************************************************)
(* More properties of deposit validation.                                  *)
(***************************************************************************)
\* C17, as stated: a deposit whose reclaim lock-time is in time units
\* validates to UnsupportedLockTime whatever its confirmation status, age,
\* fee and votes.
C17_TimeLockAlwaysUnsupported ==
    (validation_result # "pending" /\ report.lock_time.kind = "Time") =>
        validation_result = "UnsupportedLockTime"

\* C17, amended: a confirmed and unspent deposit whose reclaim lock-time is
\* in time units validates to UnsupportedLockTime whatever its age, fee and
\* votes; an unconfirmed or spent one validates to the outcome of its status.
C17_ConfirmedTimeLockUnsupported ==
    (validation_result # "pending" /\ report.lock_time.kind = "Time") =>
        validation_result =
            IF StatusCheck = "pass" THEN "UnsupportedLockTime" ELSE StatusCheck

\* C17 witness: UnsupportedLockTime for a deposit that is older than its
\* lock-time value allows, whose fee is too high and that has no votes.
C17_Witness ==
    /\ validation_result = "UnsupportedLockTime"
    /\ report.lock_time = TimeLock(1)
    /\ report.status = Confirmed(0)
    /\ FeeCheck = "FeeTooHigh"
    /\ report.can_accept = "None"

\* The age of a confirmed deposit and the fee assessed to it.
DepositAge == validate_args.chain_tip_height - report.status.height
AssessedFee == assess_input_fee(validate_args.tx, report.outpoint, validate_args.tx_fee)

\* C18: for a confirmed, unspent deposit with a lock-time of L blocks,
\* validation returns LockTimeExpiry if and only if chain_tip_height minus the
\* confirmation height is at least L - DEPOSIT_LOCKTIME_BLOCK_BUFFER,
\* equality included.
C18_ExpiryAtMaxAge ==
    (validation_result # "pending" /\ report.status.kind = "Confirmed"
        /\ report.lock_time.kind = "Blocks") =>
        (validation_result = "LockTimeExpiry" <=>
            DepositAge >= report.lock_time.value - DEPOSIT_LOCKTIME_BLOCK_BUFFER)

\* C18 witness: the equality case.
C18_Witness ==
    /\ validation_result = "LockTimeExpiry"
    /\ report.status.kind = "Confirmed"
    /\ report.lock_time.kind = "Blocks"
    /\ DepositAge = report.lock_time.value - DEPOSIT_LOCKTIME_BLOCK_BUFFER

\* C19: for a deposit that passes the status and lock-time checks and has
\* favourable votes, an assessed fee equal to min(max_fee, amount) validates
\* to Ok and an assessed fee one satoshi higher validates to FeeTooHigh.
C19_FeeLimitIsInclusive ==
    (validation_result # "pending" /\ StatusCheck = "pass" /\ LockTimeCheck = "pass"
        /\ AcceptCheck = "pass" /\ SignCheck = "pass" /\ AssessedFee.some) =>
        /\ AssessedFee.sat = Min(report.max_fee, report.amount) =>
              validation_result = "Ok"
        /\ AssessedFee.sat = Min(report.max_fee, report.amount) + 1 =>
              validation_result = "FeeTooHigh"

\* C19 witness: the assessed fee equals the limit and the deposit is Ok.
C19_Witness ==
    /\ validation_result = "Ok"
    /\ AssessedFee.some
    /\ AssessedFee.sat = Min(report.max_fee, report.amount)

\* The assessed fee is one satoshi above the limit.
C19_WitnessOneSatoshiMore ==
    /\ validation_result = "FeeTooHigh"
    /\ AssessedFee.sat = Min(report.max_fee, report.amount) + 1
    /\ AcceptCheck = "pass" /\ SignCheck = "pass"

C20_DummyTxAcknowledged ==
    \A i \in DOMAIN sign_replies :
        sign_replies[i].tx = dummy_tx => (sign_replies[i].ack /\ ~sign_replies[i].valid)

(***************************************************************************)
(* Properties of the gather states of a DKG round.                         *)
(***************************************************************************)
\* C21: the coordinator goes on from a gather state only after it has
\* gathered the message of every one of the num_signers signers, so a round
\* never completes with an aggregate key to which fewer than num_signers
\* signers contributed.
C21_GatherWaitsForAllSigners ==
    [][ /\ (/\ Gathers(dkg_coord.state) # "None"
            /\ dkg_coord'.state # dkg_coord.state
            /\ ~dkg_coord'.error)
           => /\ dkg_coord.gathered \subseteq DkgSenders(Gathers(dkg_coord.state))
              /\ \E i \in DkgSigners : dkg_coord.gathered \cup {i} = DkgSigners
        /\ DkgCompleted' =>
              /\ DkgSenders("DkgPublicShares") = DkgSigners
              /\ DkgSenders("DkgEnd") = DkgSigners
              /\ dkg_coord'.aggregate_key =
                    compute_group_key(DkgMessages("DkgPublicShares")) ]_vars

\* C21 witness: the round has completed, every signer having contributed.
C21_Witness ==
    /\ DkgCompleted
    /\ dkg_coord.aggregate_key # 0
    /\ DkgSenders("DkgPublicShares") = DkgSigners
    /\ DkgSenders("DkgPrivateShares") = DkgSigners

C22_AbortedRoundHasNoKey ==
    dkg_coord.error => (dkg_coord.state = "Idle" /\ dkg_coord.aggregate_key = 0)

(***************************************************************************)
(* Properties of peer discovery.                                           *)
(***************************************************************************)
\* C23: a peer learned through mDNS or through the identify handshake is
\* added as an explicit gossip peer if and only if it is a member of the
\* current signing set.
C23_DiscoveredMembersAreAdded ==
    [][ Len(discovery_log') > Len(discovery_log) =>
          LET ev == discovery_log'[Len(discovery_log')]
          IN  ev.kind \in {"Discovered", "Received"} =>
                 \A peer_id \in ev.peers :
                     peer_id \in explicit_peers' <=> is_allowed_peer(peer_id) ]_vars

\* What discovery does guarantee: only members of the signing set are
\* explicit peers, and only their observed addresses are added.
C23_OnlyMembersAreExplicitPeers ==
    /\ explicit_peers \subseteq current_signer_set
    /\ external_addresses \subseteq current_signer_set

(***************************************************************************)
(* Properties of the validation data of a package.                         *)
(***************************************************************************)
\* C24: in the validation data of a package the first transaction spends the
\* signer UTXO of the initial signer state and is built with its last_fees;
\* each later transaction spends the new signer output of the transaction
\* immediately before it and is built without last_fees.
C24_PackageIsChained ==
    (package_result.done /\ package_result.result.ok) =>
        LET outputs == package_result.result.outputs
        IN  /\ Len(outputs) = Len(tx_context.request_packages)
            /\ \A k \in DOMAIN outputs :
                  LET state == outputs[k].reports.signer_state
                      spent == outputs[k].tx.input[1].previous_output
                  IN  /\ spent = state.utxo
                      /\ outputs[k].signer_sighash.outpoint = state.utxo
                      /\ IF k = 1
                         THEN state = tx_context.signer_state
                         ELSE /\ state.utxo = new_signer_utxo(outputs[k - 1].tx)
                              /\ state.last_fees = NoFees

C24_Witness ==
    /\ package_result.done
    /\ package_result.result.ok
    /\ Len(package_result.result.outputs) = MaxPackageTxs
    /\ tx_context.signer_state.last_fees.some
    /\ \A k \in 2..MaxPackageTxs :
          package_result.result.outputs[k].tx.input[1].previous_output
             # tx_context.signer_state.utxo

(***************************************************************************)
(* Properties of the request decider.                                      *)
(***************************************************************************)
\* C25: handling a pending deposit request writes exactly one decision of
\* this signer for it to the store, and writes it before the decision is
\* sent: a decision on the network is already in the store.
C25_DecisionStoredBeforeGossip ==
    /\ \A i \in DOMAIN decisions_sent :
          get_deposit_signers(deposit_signers, decisions_sent[i].outpoint)
             = <<decisions_sent[i]>>
    /\ \A outpoint \in DeciderOutPoints :
          Len(get_deposit_signers(deposit_signers, outpoint)) <= 1
    /\ \A outpoint \in deposit_requests :
          (decider.pc = 0 /\ outpoint \in {decisions_sent[i].outpoint : i \in DOMAIN decisions_sent})
             => Len(get_deposit_signers(deposit_signers, outpoint)) = 1

C25_Witness ==
    /\ Len(decisions_sent) = 1
    /\ Len(deposit_signers) = 2
    /\ decider.pc = 3
    /\ decider.decision # decisions_sent[1]

(***************************************************************************)
(* Properties of the weight packager.                                      *)
(***************************************************************************)
\* C26: the number N of bags returned is at most 11/9 OPT + 1, where OPT is
\* the least number of bags that hold the items that fit in a bag.
C26_NearlyOptimal ==
    packages_result.done =>
        LET N == Len(packages_result.bags)
            OPT == OptimalBags(WeightedItems(weighted_items), bag_capacity)
        IN  /\ 9 * N <= 11 * OPT + 9
            /\ N <= (OPT * 11) \div 9 + 1
            /\ N >= OPT

\* Best-fit decreasing uses one bag more than the least number possible.
C26_Witness ==
    /\ packages_result.done
    /\ Len(packages_result.bags)
          > OptimalBags(WeightedItems(weighted_items), bag_capacity)

\* C27: the bags returned partition the items whose weight is at most the
\* capacity; a heavier item is in no bag; no bag is empty and the total
\* weight of each bag is at most the capacity.
C27_BagsPartitionLightItems ==
    packages_result.done =>
        LET bags == packages_result.bags
            items == WeightedItems(weighted_items)
            light == {items[i] : i \in {j \in DOMAIN items : items[j].weight <= bag_capacity}}
        IN  /\ UNION {Range(bags[b]) : b \in DOMAIN bags} = light
            /\ \A b \in DOMAIN bags :
                  /\ bags[b] # <<>>
                  /\ total_weight(bags[b]) <= bag_capacity
                  /\ \A i, j \in DOMAIN bags[b] : bags[b][i] = bags[b][j] => i = j
                  /\ \A c \in DOMAIN bags :
                        c # b => Range(bags[b]) \cap Range(bags[c]) = {}

C27_Witness ==
    /\ packages_result.done
    /\ Len(packages_result.bags) >= 2
    /\ \E i \in DOMAIN weighted_items : weighted_items[i] > bag_capacity
    /\ \E i \in DOMAIN weighted_items : weighted_items[i] = bag_capacity
    /\ \E i \in DOMAIN weighted_items : weighted_items[i] = 0

(***************************************************************************)
(* Properties of the ZeroMQ message stream.                                *)
(***************************************************************************)
\* C28: a message whose topic is neither hashblock nor rawblock is ignored:
\* taking it from the socket adds no item, neither a value nor an error, to
\* the message stream or to the block stream.
C28_OtherTopicsAreIgnored ==
    [][ (/\ zmq_socket # <<>>
         /\ zmq_socket' = Tail(zmq_socket)
         /\ Len(zmq_socket[1]) = 3
         /\ zmq_socket[1][1] \notin {"hashblock", "rawblock"})
        => (message_stream' = message_stream /\ block_stream' = block_stream) ]_vars

\* What the streams do with such a message: both yield the error of a
\* malformed message, and go on to the messages after it.
C28_OtherTopicsYieldAnError ==
    [][ (/\ zmq_socket # <<>>
         /\ zmq_socket' = Tail(zmq_socket)
         /\ Len(zmq_socket[1]) = 3
         /\ zmq_socket[1][1] \notin {"hashblock", "rawblock"})
        => /\ message_stream' = Append(message_stream, ZmqErr("Encryption"))
           /\ block_stream' = Append(block_stream, ZmqErr("Encryption")) ]_vars

(***************************************************************************)
(* Properties of the conversions between byte arrays and Uint256.          *)
(***************************************************************************)
\* C29: a 32-byte array converted to a Uint256 and back is the original
\* array, and a Uint256 converted to bytes and back is the original four
\* limbs; part 0 holds the first eight bytes, the first byte lowest.
C29_RoundTrip ==
    /\ Len(conv_trail) = 2 => conv_trail[2] = conv_input
    /\ (Len(conv_trail) >= 1 /\ conv_input.kind = "bytes") =>
          \A k \in 1..8 :
              conv_trail[1].value.bits_part0[k] = byte_bits(conv_input.value[1])[k]

C29_Witness ==
    /\ Len(conv_trail) = 2
    /\ conv_input.kind = "bytes"
    /\ conv_input.value[1] = 255
    /\ conv_input.value[9] = 1
    /\ conv_trail[1].value.bits_part0 # conv_trail[1].value.bits_part1

(***************************************************************************)
(* Transactions that service withdrawals.                                  *)
(***************************************************************************)
\* C30: a transaction that services at least one withdrawal request is never
\* valid: is_valid_tx is false, and every input row, the one of the signers'
\* input included, has is_valid_tx false and will_sign false, whatever the
\* results of the deposits.
C30_WithdrawalsInvalidateTheTx ==
    (vd.built /\ Len(vd.reports.withdrawals) >= 1) =>
        /\ valid_tx.done => ~valid_tx.value
        /\ input_rows.done =>
              /\ Len(input_rows.rows) = 1 + Len(vd.reports.deposits)
              /\ \A i \in DOMAIN input_rows.rows :
                    ~input_rows.rows[i].is_valid_tx /\ ~input_rows.rows[i].will_sign
        /\ withdrawal_rows.done =>
              \A i \in DOMAIN withdrawal_rows.rows : ~withdrawal_rows.rows[i].is_valid_tx

C30_Witness ==
    /\ vd.built
    /\ Len(vd.reports.withdrawals) = 1
    /\ Len(vd.reports.deposits) = 2
    /\ \A i \in DOMAIN vd.reports.deposits :
          validate(vd.reports.deposits[i], vd.chain_tip_height, vd.tx, vd.tx_fee) = "Ok"
    /\ valid_tx.done
    /\ input_rows.done
    /\ input_rows.rows[1].prevout_type = "signers_input"
    /\ ~input_rows.rows[1].will_sign

(***************************************************************************)
(* More properties of the vote-aware packager.                             *)
(***************************************************************************)
\* The bags of the packager that can take the item within both limits, the
\* mass of a bag being the sum of the masses of its items.
BagsThatFit(pk, limits, item) ==
    {k \in DOMAIN pk.bags :
        /\ count_ones(BitOr(OrVotes(pk.bags[k].items), item.votes))
              <= limits.max_votes_against
        /\ SumMass(pk.bags[k].items) + item.mass <= limits.max_mass}

\* A turn of the loop that takes the first item of item_vec, and whether the
\* item is put into a bag.
InsertTurn == pk_pc = "insert" /\ item_vec # <<>> /\ item_vec' = Tail(item_vec)
Accepted == InsertTurn /\ packager'.bags # packager.bags

\* The item taken has been put at the end of bag k and nowhere else.
PlacedInBag(k) ==
    /\ Len(packager'.bags) = Len(packager.bags)
    /\ packager'.bags[k].items = Append(packager.bags[k].items, Head(item_vec))
    /\ \A j \in DOMAIN packager.bags :
          j # k => packager'.bags[j] = packager.bags[j]

\* The item taken has been put into a new bag, the last one.
PlacedInNewBag ==
    /\ Len(packager'.bags) = Len(packager.bags) + 1
    /\ packager'.bags[Len(packager'.bags)].items = <<Head(item_vec)>>
    /\ \A j \in DOMAIN packager.bags : packager'.bags[j] = packager.bags[j]

\* The items are processed by decreasing number of votes against, items of
\* the same number in the order of the input.
ProcessingOrder ==
    (pk_pc = "start" /\ pk_pc' = "insert") =>
        /\ Len(item_vec') = Len(pk_items)
        /\ Range(item_vec') = Range(pk_items)
        /\ \A i, j \in DOMAIN item_vec' :
              i < j =>
                 \/ count_ones(item_vec'[i].votes) > count_ones(item_vec'[j].votes)
                 \/ /\ count_ones(item_vec'[i].votes) = count_ones(item_vec'[j].votes)
                    /\ item_vec'[i].id < item_vec'[j].id

\* C31: the items are processed in non-increasing order of votes against,
\* stably, and an accepted item goes into the earliest-created bag for which
\* the OR-ed vote count and the mass stay within the limits, a new bag being
\* opened only when no bag satisfies both.
C31_EarliestBagThatFits ==
    [][ /\ ProcessingOrder
        /\ Accepted =>
              LET fits == BagsThatFit(packager, pk_limits, Head(item_vec))
              IN  IF fits = {} THEN PlacedInNewBag
                  ELSE PlacedInBag(CHOOSE k \in fits : \A j \in fits : k <= j) ]_vars

\* The same while the masses of a bag add up to at most u16::MAX, which is
\* where the bag's u16 mass is the sum of the masses of its items.
C31_EarliestBagThatFitsBelowU16Max ==
    [][ /\ ProcessingOrder
        /\ (/\ Accepted
            /\ \A k \in DOMAIN packager.bags :
                  SumMass(packager.bags[k].items) + Head(item_vec).mass <= U16_MAX) =>
              LET fits == BagsThatFit(packager, pk_limits, Head(item_vec))
              IN  IF fits = {} THEN PlacedInNewBag
                  ELSE PlacedInBag(CHOOSE k \in fits : \A j \in fits : k <= j) ]_vars

\* How many times the item is in the bags.
Occurrences(bags, item) ==
    Cardinality({ki \in (DOMAIN bags) \X (1..MaxItems + 1) :
                    /\ ki[2] \in DOMAIN bags[ki[1]].items
                    /\ bags[ki[1]].items[ki[2]] = item})

\* The vsize of the items accepted so far.
AcceptedVsize(bags) == SumVsizes([k \in DOMAIN bags |-> bags[k].items])

\* C32: an item is left out of the bags if and only if, at its turn, its
\* vote count exceeds max_votes_against, its mass exceeds max_mass, or its
\* vsize added to the vsize of the items accepted so far exceeds 95,000;
\* every other item is in exactly one bag, a rejected item uses none of the
\* vsize budget, and no bag returned is empty.
C32_LeftOutIffAboveLimits ==
    [][ /\ InsertTurn =>
              LET item == Head(item_vec)
                  rejected ==
                      \/ count_ones(item.votes) > pk_limits.max_votes_against
                      \/ item.mass > pk_limits.max_mass
                      \/ AcceptedVsize(packager.bags) + item.vsize > 95000
              IN  /\ packager.total_vsize = AcceptedVsize(packager.bags)
                  /\ Occurrences(packager.bags, item) = 0
                  /\ Occurrences(packager'.bags, item) = IF rejected THEN 0 ELSE 1
                  /\ rejected => packager' = packager
                  /\ AcceptedVsize(packager'.bags)
                        = AcceptedVsize(packager.bags) + IF rejected THEN 0 ELSE item.vsize
                  /\ \A i \in DOMAIN pk_items :
                        pk_items[i] # item =>
                           Occurrences(packager'.bags, pk_items[i])
                              = Occurrences(packager.bags, pk_items[i])
                  /\ \A k \in DOMAIN packager'.bags : packager'.bags[k].items # <<>>
        /\ pk_pc' = "done" =>
              /\ pk_result' = [k \in DOMAIN packager.bags |-> packager.bags[k].items]
              /\ \A k \in DOMAIN pk_result' : pk_result'[k] # <<>> ]_vars

\* Two items fill the vsize budget to the last vbyte and a third is left out.
C32_Witness ==
    /\ pk_pc = "done"
    /\ Len(pk_items) = 3
    /\ SumVsizes(pk_result) = 95000
    /\ \E i \in DOMAIN pk_items :
          /\ count_ones(pk_items[i].votes) <= pk_limits.max_votes_against
          /\ pk_items[i].mass <= pk_limits.max_mass
          /\ \A k \in DOMAIN pk_result : pk_items[i] \notin Range(pk_result[k])

(***************************************************************************)
(* Gossip messages that are dropped.                                       *)
(***************************************************************************)
\* A gossip message that comes from a peer outside the signer set or whose
\* data does not decode.
IsDroppedMessage(ev) ==
    /\ ev.kind = "Message"
    /\ ~is_allowed_peer(ev.peer_id) \/ decode(ev.message) # "Ok"

\* C33: a gossip message from an unauthorized peer, or one that fails to
\* decode, is dropped on its own: the turn of the loop that handles it sends
\* no signal for it, so the bus only gets the signals of the payloads of the
\* outbox, which are published as if no event had come; connections and
\* explicit peers are unchanged, and the loop is ready for the next event.
C33_DroppedMessageChangesNothing ==
    [][ (IsDroppedMessage(swarm_next) /\ swarm_next' = NoEvent) =>
          /\ delivered' = delivered
          /\ \E results \in SeqsUpTo(PublishResults, MaxPublish) :
                /\ DOMAIN results = DOMAIN outbox
                /\ signal_rx' = bus_send_all(signal_rx,
                                    [i \in DOMAIN outbox |->
                                        publish_signal(outbox[i], results[i])])
          /\ outbox' = <<>>
          /\ outcomes' = [id \in DOMAIN outcomes |->
                            outcomes[id]
                            + Cardinality({i \in DOMAIN outbox : outbox[i] = id})]
          /\ connections' = connections
          /\ explicit_peers' = explicit_peers
          /\ event' = swarm_next ]_vars

\* A message that does not decode, from a signer, has been handled while a
\* payload was waiting in the outbox; the loop then takes the next event.
C33_Witness ==
    /\ IsDroppedMessage(event)
    /\ is_allowed_peer(event.peer_id)
    /\ delivered = NoEvent
    /\ \E id \in DOMAIN outcomes : outcomes[id] = 1
    /\ swarm_next.kind = "Message"
    /\ ~IsDroppedMessage(swarm_next)

(***************************************************************************)
(* The withdrawal rows and the outputs of the transaction.                 *)
(***************************************************************************)
\* The id of the request a withdrawal row is about.
RowRequestId(row) ==
    RequestId(row.request_id, row.stacks_txid, row.stacks_block_hash)

\* C34: for every row of to_withdrawal_rows, output_index is the index,
\* within the outputs of the constructed transaction, of the output that
\* pays the withdrawal request of the row.
C34_OutputIndexPointsAtTheWithdrawal ==
    withdrawal_rows.done =>
        \A i \in DOMAIN withdrawal_rows.rows :
            LET row == withdrawal_rows.rows[i]
                \* output_index counts from 0, the sequence from 1.
                txout == vd.tx.output[row.output_index + 1]
            IN  txout.kind = "withdrawal" /\ txout.id = RowRequestId(row)

\* What the rows hold: the position of the request among the withdrawals,
\* which is two less than the index of its output.
C34_OutputIndexIsTwoLess ==
    withdrawal_rows.done =>
        /\ Len(withdrawal_rows.rows) = Len(vd.reports.withdrawals)
        /\ \A i \in DOMAIN withdrawal_rows.rows :
              LET row == withdrawal_rows.rows[i]
                  txout == vd.tx.output[row.output_index + 2 + 1]
              IN  /\ row.output_index = i - 1
                  /\ txout.kind = "withdrawal" /\ txout.id = RowRequestId(row)

(***************************************************************************)
(* The signer bitmap of a withdrawal event.                                *)
(***************************************************************************)
\* C35: the signer bitmap of a withdrawal-accept or withdrawal-reject event
\* has bit i set exactly when bit i was set in the bitmap that was passed to
\* the contract call.
C35_BitmapRoundTrips ==
    registry_event # NoValue
        => registry_event.signer_bitmap = withdrawal_call.signer_bitmap

\* What holds instead: the bitmap of a withdrawal-reject event is the bitmap
\* of the call, the bitmap of a withdrawal-accept event is the bitmap of the
\* call with its sixteen bytes in the opposite order.
C35_AcceptBitmapIsByteReversed ==
    registry_event # NoValue
        => \A i \in BitIndices :
              i \in registry_event.signer_bitmap
                  <=> IF registry_event.kind = "WithdrawalReject"
                      THEN i \in withdrawal_call.signer_bitmap
                      ELSE 8 * (15 - (i \div 8)) + (i % 8)
                               \in withdrawal_call.signer_bitmap

(***************************************************************************)
(* The forwarding task and the dedup buffer of the in-memory network.      *)
(***************************************************************************)
\* C36: the forwarding task of a signer network never stops, also when it
\* has fallen behind the capacity of the WAN channel.
C36_ForwarderNeverStops == \A s \in Signers : forwarder[s].alive

\* The ids of the messages that signer s has sent, in the order of the sends.
SentIds(s) ==
    LET mine == SelectSeq(wan, LAMBDA msg : msg.from = s)
    IN  [k \in DOMAIN mine |-> mine[k].id]

\* The last n values of a sequence, all of them when it has fewer.
LastN(seq, n) ==
    IF Len(seq) <= n THEN seq ELSE SubSeq(seq, Len(seq) - n + 1, Len(seq))

\* C39: after a send the dedup buffer of a signer holds no more ids than its
\* capacity, and it holds the most recent ids the signer sent, in the order
\* of the sends: the id evicted is the one inserted earliest.
C39_BufferHoldsMostRecentIds ==
    \A s \in Signers :
        /\ Len(sent[s]) <= DedupCapacity
        /\ sent[s] = LastN(SentIds(s), DedupCapacity)

\* A signer has sent more messages than its buffer holds, another signer
\* having sent in between: the earliest id is gone from the buffer.
C39_Witness ==
    \E s \in Signers :
        /\ Len(SentIds(s)) > DedupCapacity
        /\ Len(SentIds(s)) < Len(wan)
        /\ Len(sent[s]) = DedupCapacity
        /\ \A k \in DOMAIN sent[s] : sent[s][k] # SentIds(s)[1]

(***************************************************************************)
(* Signals sent through the context and the termination latch.             *)
(***************************************************************************)
\* C37: Context::signal succeeds and leaves the termination latch as it is
\* when a receiver is subscribed, and with no receiver it sets the latch and
\* returns SignerShutdown; a latch that is set stays set, and signalling the
\* shutdown again changes nothing.
C37_SignalSetsLatchOnlyWithoutReceivers ==
    [][/\ Len(signal_log') > Len(signal_log) =>
             IF signal_receivers > 0
             THEN /\ signal_log'[Len(signal_log')] = "Ok"
                  /\ term_tx' = term_tx
             ELSE /\ signal_log'[Len(signal_log')] = "SignerShutdown"
                  /\ term_tx'.value
       /\ term_tx.value => term_tx' = term_tx]_vars

\* A signal was sent with a receiver subscribed and the latch stayed unset,
\* then one with no receiver, which set it.
C37_Witness ==
    /\ signal_log = <<"Ok", "SignerShutdown">>
    /\ term_tx = [value |-> TRUE, version |-> 1]
    /\ signal_receivers = 0

(***************************************************************************)
(* Requests of a package that the store has no report for.                 *)
(***************************************************************************)
\* Whether the store has no report for a deposit, or for a withdrawal, of
\* the requests of one transaction.
DepositUnknown(requests) ==
    \E i \in DOMAIN requests.deposits :
        ~package_deposit_report(requests.deposits[i]).some
WithdrawalUnknown(requests) ==
    \E i \in DOMAIN requests.withdrawals :
        ~package_withdrawal_report(requests.withdrawals[i]).some

\* C38: when the store has no report for a deposit or a withdrawal of any
\* transaction of the package, construct_package_sighashes returns an Unknown
\* validation error for the whole package and validation data for none of
\* its transactions.
C38_UnknownRequestFailsThePackage ==
    package_result.done =>
        LET pkgs == tx_context.request_packages
            unknown == {k \in DOMAIN pkgs :
                           DepositUnknown(pkgs[k]) \/ WithdrawalUnknown(pkgs[k])}
        IN  IF unknown = {}
            THEN package_result.result.ok
            ELSE /\ ~package_result.result.ok
                 /\ "outputs" \notin DOMAIN package_result.result
                 /\ LET first == CHOOSE k \in unknown : \A j \in unknown : k <= j
                    IN  package_result.result.error =
                            IF DepositUnknown(pkgs[first])
                            THEN "Deposit(Unknown)" ELSE "Withdrawal(Unknown)"

\* The last transaction of a package has a withdrawal without a report, the
\* transactions before it have all their reports: the package fails.
C38_Witness ==
    /\ package_result.done
    /\ Len(tx_context.request_packages) = MaxPackageTxs
    /\ \A k \in 1..(MaxPackageTxs - 1) :
          /\ ~DepositUnknown(tx_context.request_packages[k])
          /\ ~WithdrawalUnknown(tx_context.request_packages[k])
          /\ tx_context.request_packages[k].deposits # <<>>
    /\ WithdrawalUnknown(tx_context.request_packages[MaxPackageTxs])
    /\ ~DepositUnknown(tx_context.request_packages[MaxPackageTxs])
    /\ ~package_result.result.ok
    /\ package_result.result.error = "Withdrawal(Unknown)"

====
